---- MODULE Spec2Model ----
(***************************************************************************)
(* Reconciliation engine of cluster-api-provider-gcp.                      *)
(*                                                                         *)
(* The provider (GCE) is a set of keyed resource maps.  Every provider     *)
(* call of the engine is one step: the call, the provider's answer and the *)
(* engine's local code up to its next provider call.  A running operation  *)
(* is the only enabled engine activity until it returns (one reconcile at  *)
(* a time per cluster object).                                             *)
(*                                                                         *)
(*   SpecNet      : networks.Service  (Reconcile / Delete)                 *)
(*   SpecEnv      : networks.Service next to another actor                 *)
(*   SpecScope    : networks.Service over a scope written before           *)
(*   SpecInst     : instances.Service (Reconcile / Delete)                 *)
(*   SpecInstEnv  : instances.Service next to another actor                *)
(*   SpecInstLive : instances.Service under a fair trigger                 *)
(*   SpecAddr     : instances.Service.Reconcile over instance interfaces   *)
(*   SpecServices : both services                                          *)
(*   SpecCluster  : GCPClusterReconciler                                   *)
(***************************************************************************)
EXTENDS Naturals, Sequences, FiniteSets, TLC

\* ------------------------------------------------------------------------
\* Bounds of the model
\* ------------------------------------------------------------------------

\* Longest SubnetworksSpec() list.
MaxSubnets == 2

\* Size of an initial configuration: one for every range entry (desired and
\* observed together), two for every subnet spec after the first.
MaxInitSize == 3

\* Provider calls answered with a transient error in one operation.
MaxFaults == 1

\* Size of an initial configuration that another actor also changes.
MaxEnvSize == 1

\* Network interfaces of an instance, and access-configs of an interface,
\* in the specification of the node addresses.
MaxInterfaces == 2

MaxAccessConfigs == 2

\* ------------------------------------------------------------------------
\* Values
\* ------------------------------------------------------------------------

\* A Go pointer: nil, or a pointer to a value.
Nil == << >>

Ptr(x) == << x >>

Deref(p) == p[1]

\* infrav1.ClusterTagKey(s.scope.Name()): the ownership tag of this cluster.
ClusterTagKey == "capg-cluster1"

\* Description of a resource somebody else created.
ForeignDescription == "created-by-user"

Descriptions == {ClusterTagKey, ForeignDescription}

\* s.scope.NetworkName()
NetworkName == "net1"

\* s.scope.NatRouterSpec().Name
RouterName == "nat1"

NetworkSelfLink == "global/networks/net1"

RouterSelfLink == "regions/r1/routers/nat1"

AllSubnetNames == << "sub1", "sub2", "sub3", "sub4" >>

\* gcperrors: the not-found answer, and every other provider error.
ErrNotFound == "NotFound"

ErrTransient == "Transient"

ErrAlreadyExists == "AlreadyExists"

OK == "ok"

\* gcperrors.IsNotFound
IsNotFound(err) == err = ErrNotFound

\* Mutant: no error is ignored.
MutIgnoreNothing(err) == err

\* gcperrors.IgnoreNotFound
IgnoreNotFound(err) == IF IsNotFound(err) THEN OK ELSE err

\* ------------------------------------------------------------------------
\* Go slices of secondary ranges.  reflect.DeepEqual tells a nil slice from
\* an empty non-nil one.
\* ------------------------------------------------------------------------

RangeEntries ==
    { [RangeName |-> "A", IpCidrRange |-> "10.0.0.0/24"],
      [RangeName |-> "A", IpCidrRange |-> "10.0.9.0/24"],
      [RangeName |-> "B", IpCidrRange |-> "10.0.1.0/24"] }

RangeNamesOf(elems) == { elems[i].RangeName : i \in DOMAIN elems }

\* Range lists a subnet can hold: no range name twice.
RangeLists ==
    { << >> } \cup { << e >> : e \in RangeEntries }
      \cup UNION { { << e, f >> : f \in { g \in RangeEntries : g.RangeName # e.RangeName } } :
                   e \in RangeEntries }

Slice(elems) == [isNil |-> FALSE, elems |-> elems]

\* append(s, e)
AppendSlice(s, e) == [isNil |-> FALSE, elems |-> Append(s.elems, e)]

\* make([]*compute.SubnetworkSecondaryRange, 0, n)
MakeSlice == [isNil |-> FALSE, elems |-> << >>]

\* reflect.DeepEqual on two slices
DeepEqual(a, b) == a.isNil = b.isNil /\ a.elems = b.elems

\* ------------------------------------------------------------------------
\* State
\* ------------------------------------------------------------------------
VARIABLES
    networks,         \* provider: network name -> compute.Network
    routers,          \* provider: router name  -> compute.Router
    subnetworks,      \* provider: subnet name  -> compute.Subnetwork
    scopeNetwork,     \* s.scope.Network(): SelfLink and Router (both *string)
    subnetSpecs,      \* s.scope.SubnetworksSpec()
    op,               \* the operation running or last run
    pc,               \* the provider call the operation is about to make
    result,           \* what the operation returned
    network,          \* local: *compute.Network
    router,           \* local: *compute.Router
    subnet,           \* local: *compute.Subnetwork of the loop
    idx,              \* local: position in the subnet spec list
    calls,            \* provider calls issued by the operation, in order
    faults,           \* transient errors answered in the operation
    pre,              \* provider and scope state when the operation started
    settled,          \* the operation before this one was a successful Reconcile
    instances,        \* provider: instance name -> compute.Instance
    instanceGroups,   \* provider: instance group name -> member self-links
    scopeMachine,     \* machine scope: provider ID, addresses, instance status
    isControlPlane,   \* s.scope.IsControlPlane()
    bootstrapData,    \* what s.scope.GetBootstrapData() has to give
    instance,         \* local: *compute.Instance
    instanceList,     \* local: the self-links ListInstances answered
    extern,           \* changes other actors made at the provider so far
    baseline,         \* subnets as they were before the Reconcile calls so far
    gcpCluster,       \* the GCPCluster object as the API server stores it
    clusterScope,     \* clusterScope.GCPCluster: the object the call works on
    ctrlResult        \* the ctrl.Result the controller's Reconcile returned

vars == << networks, routers, subnetworks, scopeNetwork, subnetSpecs, op, pc,
           result, network, router, subnet, idx, calls, faults, pre, settled,
           instances, instanceGroups, scopeMachine, isControlPlane,
           bootstrapData, instance, instanceList, extern, baseline,
           gcpCluster, clusterScope, ctrlResult >>

\* State of the networks service, and of the instances service.
netVars == << networks, routers, subnetworks, scopeNetwork, subnetSpecs,
              network, router, subnet, idx >>

machineVars == << instances, instanceGroups, scopeMachine, isControlPlane,
                  bootstrapData, instance, instanceList >>

\* State of the GCPCluster controller.
clusterVars == << gcpCluster, clusterScope, ctrlResult >>

provider == << networks, routers, subnetworks >>

locals == << network, router, subnet, idx >>

\* One provider call of the log: what was called, on which key, the answer.
Call(api, key, err) == [api |-> api, key |-> key, err |-> err]

Snapshot ==
    [networks |-> networks, routers |-> routers, subnetworks |-> subnetworks,
     scopeNetwork |-> scopeNetwork, extern |-> extern]

\* ------------------------------------------------------------------------
\* Desired state (scope)
\* ------------------------------------------------------------------------

\* s.scope.NetworkSpec(): the network as this engine creates it.
NetworkSpec == [Description |-> ClusterTagKey, SelfLink |-> NetworkSelfLink]

\* s.scope.NatRouterSpec()
NatRouterSpec == [Description |-> "", Network |-> "", SelfLink |-> RouterSelfLink]

SubnetNames == { AllSubnetNames[i] : i \in 1..MaxSubnets }

\* ------------------------------------------------------------------------
\* Provider
\* ------------------------------------------------------------------------

\* Get(key): the stored object, or not found.
Exists(store, key) == key \in DOMAIN store

\* Insert(key, obj)
Inserted(store, key, obj) ==
    [k \in DOMAIN store \cup {key} |-> IF k = key THEN obj ELSE store[k]]

\* Delete(key)
Deleted(store, key) == [k \in DOMAIN store \ {key} |-> store[k]]

\* What subnetworks.Get hands back for a stored subnet: the range list of
\* the answer is nil or empty when the subnet has no secondary range.
ObservedSubnets(stored) ==
    { [Description |-> stored.Description, Network |-> stored.Network,
       SecondaryIpRanges |-> [isNil |-> n, elems |-> stored.SecondaryIpRanges]] :
      n \in IF stored.SecondaryIpRanges = << >> THEN BOOLEAN ELSE {FALSE} }

\* The provider's answers.
GetAnswer(store, key) == IF Exists(store, key) THEN OK ELSE ErrNotFound

InsertAnswer(store, key) == IF Exists(store, key) THEN ErrAlreadyExists ELSE OK

DeleteAnswer(store, key) == IF Exists(store, key) THEN OK ELSE ErrNotFound

PatchAnswer(store, key) == IF Exists(store, key) THEN OK ELSE ErrNotFound

\* Mutant: Patch loses the subnet.
MutPatchedDropsSubnet(store, key, obj) == Deleted(store, key)

\* Patch(key, obj): the subnet with the range list of obj.
Patched(store, key, obj) ==
    [store EXCEPT ![key].SecondaryIpRanges = obj.SecondaryIpRanges.elems]

\* ------------------------------------------------------------------------
\* networks.Service: pure parts
\* ------------------------------------------------------------------------

\* Mutant: Reconcile takes every network for its own.
MutReconcileOwnsAnyNetwork(n) == n.Description \in Descriptions

\* Mutant: Reconcile takes no network for its own.
MutReconcileOwnsNoNetwork(n) == n.Description \notin Descriptions

\* Reconcile: network.Description == infrav1.ClusterTagKey(s.scope.Name())
ReconcileOwnsNetwork(n) == n.Description = ClusterTagKey

\* Mutant: Delete takes every network for its own.
MutDeleteOwnsAnyNetwork(n) == n.Description \in Descriptions

\* Delete: network.Description != tag returns early
DeleteOwnsNetwork(n) == n.Description = ClusterTagKey

\* Mutant: Delete takes every router for its own.
MutDeleteOwnsAnyRouter(r) == r.Description \in Descriptions

\* Delete: router != nil && router.Description == tag
DeleteOwnsRouter(r) == r.Description = ClusterTagKey

\* deleteOrPatchSubnetwork: subnet.Description == tag
DeleteOwnsSubnet(s) == s.Description = ClusterTagKey

\* Mutant: the router spec is tagged but not tied to the network.
MutRouterSpecWithoutNetwork(n) ==
    [NatRouterSpec EXCEPT !.Description = ClusterTagKey]

\* createOrGetRouter: spec.Network and spec.Description stamped before Insert
StampedRouterSpec(n) ==
    [NatRouterSpec EXCEPT !.Network = n.SelfLink, !.Description = ClusterTagKey]

\* createOrPatchSubnet: spec.Network and spec.Description stamped before Insert
StampedSubnetSpec(spec, n) ==
    [Description |-> ClusterTagKey, Network |-> n.SelfLink,
     SecondaryIpRanges |-> spec.SecondaryIpRanges]

RECURSIVE AppendMissing(_, _, _)
\* The loop over spec.SecondaryIpRanges: entries whose name is not in `have`
\* are appended to acc, in order.
AppendMissing(acc, have, specElems) ==
    IF specElems = << >> THEN acc
    ELSE AppendMissing(IF Head(specElems).RangeName \in have
                         THEN acc ELSE AppendSlice(acc, Head(specElems)),
                       have, Tail(specElems))

\* Mutant: the desired list replaces the observed one.
MutMergedRangesSpecWins(observed, specElems) == Slice(specElems)

\* Mutant: every desired entry is appended, known name or not.
MutMergedRangesAppendAll(observed, specElems) ==
    AppendMissing(observed, {}, specElems)

\* createOrPatchSubnet: secondaryIPRange after the two loops.
MergedRanges(observed, specElems) ==
    AppendMissing(observed, RangeNamesOf(observed.elems), specElems)

RECURSIVE KeepMissing(_, _, _)
\* The loop over subnet.SecondaryIpRanges: entries whose name is not in
\* `drop` are appended to acc, in order.
KeepMissing(acc, drop, obsElems) ==
    IF obsElems = << >> THEN acc
    ELSE KeepMissing(IF Head(obsElems).RangeName \in drop
                       THEN acc ELSE AppendSlice(acc, Head(obsElems)),
                     drop, Tail(obsElems))

\* Mutant: only the ranges that are the spec's own entries are dropped.
MutRestoredRangesByEntry(observed, specElems) ==
    [isNil |-> FALSE,
     elems |-> SelectSeq(observed.elems,
                         LAMBDA e : \A j \in DOMAIN specElems : specElems[j] # e)]

\* deleteOrPatchSubnetwork: secondaryIPRange after the two loops.
RestoredRanges(observed, specElems) ==
    KeepMissing(MakeSlice, RangeNamesOf(specElems), observed.elems)

\* ------------------------------------------------------------------------
\* Control
\* ------------------------------------------------------------------------

Goto(p) == pc' = p /\ result' = result

Return(r) == pc' = "done" /\ result' = r

\* A provider call answered with a transient error, or a change by another
\* actor: at most MaxFaults of them meet in one operation.
CanFail == faults + extern < MaxFaults

\* What no step of a running networks operation changes.
NetFrame ==
    UNCHANGED << subnetSpecs, op, pre, settled, machineVars, extern, baseline,
                 clusterVars >>

\* The provider call of this step is answered with a transient error.
Failing(api, key) ==
    /\ CanFail
    /\ faults' = faults + 1
    /\ calls' = Append(calls, Call(api, key, ErrTransient))

\* The provider call of this step is answered by the provider's state.
Answered(api, key, err) ==
    /\ faults' = faults
    /\ calls' = Append(calls, Call(api, key, err))

\* An operation of networks.New(scope): the scope is a cluster's.
Begin(o) ==
    /\ pc = "done"
    /\ op' = o
    /\ result' = "running"
    /\ calls' = << >>
    /\ scopeMachine = << >>
    /\ faults' = 0 /\ extern' = extern
    /\ pre' = Snapshot
    /\ settled' = (op = "Reconcile" /\ result = OK)
    /\ network' = Nil /\ router' = Nil /\ subnet' = Nil
    /\ UNCHANGED << provider, scopeNetwork, subnetSpecs, machineVars,
                    clusterVars >>

\* createOrPatchSubnet: the loop reaches position i.
ReconcileSubnetLoop(i) ==
    /\ subnet' = Nil
    /\ IF i > Len(subnetSpecs)
         THEN Return(OK) /\ idx' = idx
         ELSE Goto("R162") /\ idx' = i

\* deleteOrPatchSubnetwork: the loop reaches position i; Delete goes on to
\* the network lookup after it.
DeleteSubnetLoop(i) ==
    /\ subnet' = Nil
    /\ IF i > Len(subnetSpecs)
         THEN Goto("D61") /\ idx' = idx
         ELSE Goto("D218") /\ idx' = i

\* ------------------------------------------------------------------------
\* networks.Service.Reconcile
\* ------------------------------------------------------------------------

\* Mutant: for a network of somebody else the Router reference is reset.
MutGotNetworkResetsRouter(n) ==
    /\ network' = Ptr(n)
    /\ IF ReconcileOwnsNetwork(n)
         THEN Goto("R129") /\ UNCHANGED << scopeNetwork, idx, subnet >>
         ELSE /\ scopeNetwork' = [SelfLink |-> Ptr(n.SelfLink), Router |-> Nil]
              /\ ReconcileSubnetLoop(1)

\* Reconcile, after createOrGetNetwork returned n: the ownership test, and
\* for a network of somebody else the self-link and the subnet loop.
GotNetwork(n) ==
    /\ network' = Ptr(n)
    /\ IF ReconcileOwnsNetwork(n)
         THEN Goto("R129") /\ UNCHANGED << scopeNetwork, idx, subnet >>
         ELSE /\ scopeNetwork' = [scopeNetwork EXCEPT !.SelfLink = Ptr(n.SelfLink)]
              /\ ReconcileSubnetLoop(1)

\* Reconcile, after createOrGetRouter returned r: both references are
\* recorded and the subnet loop starts.
GotRouter(r) ==
    /\ router' = Ptr(r)
    /\ scopeNetwork' = [SelfLink |-> Ptr(Deref(network).SelfLink),
                        Router |-> Ptr(r.SelfLink)]
    /\ ReconcileSubnetLoop(1)

\* createOrPatchSubnet, after the subnet was fetched: the merge, and the
\* Patch when the merged list differs.
GotSubnet(obs) ==
    LET secondaryIPRange ==
            MergedRanges(obs.SecondaryIpRanges, subnetSpecs[idx].SecondaryIpRanges)
    IN  IF ~DeepEqual(secondaryIPRange, obs.SecondaryIpRanges)
          THEN /\ subnet' = Ptr([obs EXCEPT !.SecondaryIpRanges = secondaryIPRange])
               /\ Goto("R200") /\ idx' = idx
          ELSE ReconcileSubnetLoop(idx + 1)

StartReconcile ==
    /\ Begin("Reconcile")
    /\ pc' = "R101" /\ idx' = 0
    /\ baseline' = IF op = "Reconcile" THEN baseline ELSE Ptr(subnetworks)

\* createOrGetNetwork: s.networks.Get
ReconcileNetworkGet ==
    /\ op = "Reconcile" /\ pc = "R101"
    /\ NetFrame
    /\ UNCHANGED << provider, router >>
    /\ \/ /\ Failing("networks.Get", NetworkName)
          /\ Return(ErrTransient)
          /\ UNCHANGED << network, scopeNetwork, idx, subnet >>
       \/ /\ Answered("networks.Get", NetworkName, GetAnswer(networks, NetworkName))
          /\ IF Exists(networks, NetworkName)
               THEN GotNetwork(networks[NetworkName])
               ELSE Goto("R109") /\ UNCHANGED << network, scopeNetwork, idx, subnet >>

\* createOrGetNetwork: s.networks.Insert
ReconcileNetworkInsert ==
    /\ op = "Reconcile" /\ pc = "R109"
    /\ NetFrame
    /\ UNCHANGED << routers, subnetworks, scopeNetwork, locals >>
    /\ \/ /\ Failing("networks.Insert", NetworkName)
          /\ Return(ErrTransient)
          /\ UNCHANGED networks
       \/ /\ Answered("networks.Insert", NetworkName, InsertAnswer(networks, NetworkName))
          /\ IF Exists(networks, NetworkName)
               THEN Return(ErrAlreadyExists) /\ UNCHANGED networks
               ELSE /\ networks' = Inserted(networks, NetworkName, NetworkSpec)
                    /\ Goto("R114")

\* createOrGetNetwork: s.networks.Get after the Insert
ReconcileNetworkReGet ==
    /\ op = "Reconcile" /\ pc = "R114"
    /\ NetFrame
    /\ UNCHANGED << provider, router >>
    /\ \/ /\ Failing("networks.Get", NetworkName)
          /\ Return(ErrTransient)
          /\ UNCHANGED << network, scopeNetwork, idx, subnet >>
       \/ /\ Answered("networks.Get", NetworkName, GetAnswer(networks, NetworkName))
          /\ IF Exists(networks, NetworkName)
               THEN GotNetwork(networks[NetworkName])
               ELSE Return(ErrNotFound) /\ UNCHANGED << network, scopeNetwork, idx, subnet >>

\* createOrGetRouter: s.routers.Get
ReconcileRouterGet ==
    /\ op = "Reconcile" /\ pc = "R129"
    /\ NetFrame
    /\ UNCHANGED << provider, network >>
    /\ \/ /\ Failing("routers.Get", RouterName)
          /\ Return(ErrTransient)
          /\ UNCHANGED << router, scopeNetwork, idx, subnet >>
       \/ /\ Answered("routers.Get", RouterName, GetAnswer(routers, RouterName))
          /\ IF Exists(routers, RouterName)
               THEN GotRouter(routers[RouterName])
               ELSE Goto("R139") /\ UNCHANGED << router, scopeNetwork, idx, subnet >>

\* createOrGetRouter: s.routers.Insert
ReconcileRouterInsert ==
    /\ op = "Reconcile" /\ pc = "R139"
    /\ NetFrame
    /\ UNCHANGED << networks, subnetworks, scopeNetwork, locals >>
    /\ \/ /\ Failing("routers.Insert", RouterName)
          /\ Return(ErrTransient)
          /\ UNCHANGED routers
       \/ /\ Answered("routers.Insert", RouterName, InsertAnswer(routers, RouterName))
          /\ IF Exists(routers, RouterName)
               THEN Return(ErrAlreadyExists) /\ UNCHANGED routers
               ELSE /\ routers' = Inserted(routers, RouterName,
                                           StampedRouterSpec(Deref(network)))
                    /\ Goto("R144")

\* createOrGetRouter: s.routers.Get after the Insert
ReconcileRouterReGet ==
    /\ op = "Reconcile" /\ pc = "R144"
    /\ NetFrame
    /\ UNCHANGED << provider, network >>
    /\ \/ /\ Failing("routers.Get", RouterName)
          /\ Return(ErrTransient)
          /\ UNCHANGED << router, scopeNetwork, idx, subnet >>
       \/ /\ Answered("routers.Get", RouterName, GetAnswer(routers, RouterName))
          /\ IF Exists(routers, RouterName)
               THEN GotRouter(routers[RouterName])
               ELSE Return(ErrNotFound) /\ UNCHANGED << router, scopeNetwork, idx, subnet >>

\* createOrPatchSubnet: s.subnetworks.Get
ReconcileSubnetGet ==
    /\ op = "Reconcile" /\ pc = "R162"
    /\ NetFrame
    /\ UNCHANGED << provider, scopeNetwork, network, router >>
    /\ \/ /\ Failing("subnetworks.Get", subnetSpecs[idx].Name)
          /\ Return(ErrTransient)
          /\ UNCHANGED << idx, subnet >>
       \/ /\ Answered("subnetworks.Get", subnetSpecs[idx].Name, GetAnswer(subnetworks, subnetSpecs[idx].Name))
          /\ IF Exists(subnetworks, subnetSpecs[idx].Name)
               THEN \E obs \in ObservedSubnets(subnetworks[subnetSpecs[idx].Name]) :
                        GotSubnet(obs)
               ELSE Goto("R172") /\ UNCHANGED << idx, subnet >>

\* createOrPatchSubnet: s.subnetworks.Insert
ReconcileSubnetInsert ==
    /\ op = "Reconcile" /\ pc = "R172"
    /\ NetFrame
    /\ UNCHANGED << networks, routers, scopeNetwork, locals >>
    /\ \/ /\ Failing("subnetworks.Insert", subnetSpecs[idx].Name)
          /\ Return(ErrTransient)
          /\ UNCHANGED subnetworks
       \/ /\ Answered("subnetworks.Insert", subnetSpecs[idx].Name, InsertAnswer(subnetworks, subnetSpecs[idx].Name))
          /\ IF Exists(subnetworks, subnetSpecs[idx].Name)
               THEN Return(ErrAlreadyExists) /\ UNCHANGED subnetworks
               ELSE /\ subnetworks' =
                           Inserted(subnetworks, subnetSpecs[idx].Name,
                                    StampedSubnetSpec(subnetSpecs[idx], Deref(network)))
                    /\ Goto("R177")

\* createOrPatchSubnet: s.subnetworks.Get after the Insert
ReconcileSubnetReGet ==
    /\ op = "Reconcile" /\ pc = "R177"
    /\ NetFrame
    /\ UNCHANGED << provider, scopeNetwork, network, router >>
    /\ \/ /\ Failing("subnetworks.Get", subnetSpecs[idx].Name)
          /\ Return(ErrTransient)
          /\ UNCHANGED << idx, subnet >>
       \/ /\ Answered("subnetworks.Get", subnetSpecs[idx].Name, GetAnswer(subnetworks, subnetSpecs[idx].Name))
          /\ IF Exists(subnetworks, subnetSpecs[idx].Name)
               THEN \E obs \in ObservedSubnets(subnetworks[subnetSpecs[idx].Name]) :
                        GotSubnet(obs)
               ELSE Return(ErrNotFound) /\ UNCHANGED << idx, subnet >>

\* createOrPatchSubnet: s.subnetworks.Patch
ReconcileSubnetPatch ==
    /\ op = "Reconcile" /\ pc = "R200"
    /\ NetFrame
    /\ UNCHANGED << networks, routers, scopeNetwork, network, router >>
    /\ \/ /\ Failing("subnetworks.Patch", subnetSpecs[idx].Name)
          /\ Return(ErrTransient)
          /\ UNCHANGED << subnetworks, idx, subnet >>
       \/ /\ Answered("subnetworks.Patch", subnetSpecs[idx].Name, PatchAnswer(subnetworks, subnetSpecs[idx].Name))
          /\ IF Exists(subnetworks, subnetSpecs[idx].Name)
               THEN /\ subnetworks' =
                           Patched(subnetworks, subnetSpecs[idx].Name, Deref(subnet))
                    /\ ReconcileSubnetLoop(idx + 1)
               ELSE Return(ErrNotFound) /\ UNCHANGED << subnetworks, idx, subnet >>

\* ------------------------------------------------------------------------
\* networks.Service.Delete
\* ------------------------------------------------------------------------

StartDelete ==
    /\ Begin("Delete")
    /\ idx' = IF Len(subnetSpecs) = 0 THEN 0 ELSE 1
    /\ pc' = IF Len(subnetSpecs) = 0 THEN "D61" ELSE "D218"
    /\ baseline' = IF op = "Reconcile" THEN baseline ELSE Nil

\* deleteOrPatchSubnetwork, after the subnet was fetched: Delete for a
\* subnet of this cluster, else the restored list and the Patch when it
\* differs from the observed one.
FoundSubnet(obs) ==
    IF DeleteOwnsSubnet(obs)
      THEN subnet' = Ptr(obs) /\ Goto("D229") /\ idx' = idx
      ELSE LET secondaryIPRange ==
                   RestoredRanges(obs.SecondaryIpRanges,
                                  subnetSpecs[idx].SecondaryIpRanges)
           IN  IF ~DeepEqual(secondaryIPRange, obs.SecondaryIpRanges)
                 THEN /\ subnet' = Ptr([obs EXCEPT !.SecondaryIpRanges = secondaryIPRange])
                      /\ Goto("D254") /\ idx' = idx
                 ELSE DeleteSubnetLoop(idx + 1)

\* deleteOrPatchSubnetwork, s.subnetworks.Get answered err: an error that
\* is not not-found moves on to the next spec, not-found is returned.
SubnetLookupFailed(err) ==
    IF ~IsNotFound(err)
      THEN DeleteSubnetLoop(idx + 1)
      ELSE Return(err) /\ UNCHANGED << idx, subnet >>

\* deleteOrPatchSubnetwork: s.subnetworks.Get
DeleteSubnetGet ==
    /\ op = "Delete" /\ pc = "D218"
    /\ NetFrame
    /\ UNCHANGED << provider, scopeNetwork, network, router >>
    /\ \/ /\ Failing("subnetworks.Get", subnetSpecs[idx].Name)
          /\ SubnetLookupFailed(ErrTransient)
       \/ /\ Answered("subnetworks.Get", subnetSpecs[idx].Name, GetAnswer(subnetworks, subnetSpecs[idx].Name))
          /\ IF Exists(subnetworks, subnetSpecs[idx].Name)
               THEN \E obs \in ObservedSubnets(subnetworks[subnetSpecs[idx].Name]) :
                        FoundSubnet(obs)
               ELSE SubnetLookupFailed(ErrNotFound)

\* deleteOrPatchSubnetwork: s.subnetworks.Delete
DeleteSubnetDelete ==
    /\ op = "Delete" /\ pc = "D229"
    /\ NetFrame
    /\ UNCHANGED << networks, routers, scopeNetwork, network, router >>
    /\ \/ /\ Failing("subnetworks.Delete", subnetSpecs[idx].Name)
          /\ Return(ErrTransient)
          /\ UNCHANGED << subnetworks, idx, subnet >>
       \/ /\ Answered("subnetworks.Delete", subnetSpecs[idx].Name, DeleteAnswer(subnetworks, subnetSpecs[idx].Name))
          /\ IF Exists(subnetworks, subnetSpecs[idx].Name)
               THEN /\ subnetworks' = Deleted(subnetworks, subnetSpecs[idx].Name)
                    /\ DeleteSubnetLoop(idx + 1)
               ELSE Return(ErrNotFound) /\ UNCHANGED << subnetworks, idx, subnet >>

\* deleteOrPatchSubnetwork: s.subnetworks.Patch
DeleteSubnetPatch ==
    /\ op = "Delete" /\ pc = "D254"
    /\ NetFrame
    /\ UNCHANGED << networks, routers, scopeNetwork, network, router >>
    /\ \/ /\ Failing("subnetworks.Patch", subnetSpecs[idx].Name)
          /\ Return(ErrTransient)
          /\ UNCHANGED << subnetworks, idx, subnet >>
       \/ /\ Answered("subnetworks.Patch", subnetSpecs[idx].Name, PatchAnswer(subnetworks, subnetSpecs[idx].Name))
          /\ IF Exists(subnetworks, subnetSpecs[idx].Name)
               THEN /\ subnetworks' =
                           Patched(subnetworks, subnetSpecs[idx].Name, Deref(subnet))
                    /\ DeleteSubnetLoop(idx + 1)
               ELSE Return(ErrNotFound) /\ UNCHANGED << subnetworks, idx, subnet >>

\* Delete: s.networks.Get, and the ownership test on the network
DeleteNetworkGet ==
    /\ op = "Delete" /\ pc = "D61"
    /\ NetFrame
    /\ UNCHANGED << provider, scopeNetwork, router, subnet, idx >>
    /\ \/ /\ Failing("networks.Get", NetworkName)
          /\ Return(IgnoreNotFound(ErrTransient))
          /\ UNCHANGED network
       \/ /\ Answered("networks.Get", NetworkName, GetAnswer(networks, NetworkName))
          /\ IF Exists(networks, NetworkName)
               THEN /\ network' = Ptr(networks[NetworkName])
                    /\ IF ~DeleteOwnsNetwork(networks[NetworkName])
                         THEN Return(OK)
                         ELSE Goto("D75")
               ELSE Return(IgnoreNotFound(ErrNotFound)) /\ UNCHANGED network

\* Delete: s.routers.Get, and the ownership test on the router
DeleteRouterGet ==
    /\ op = "Delete" /\ pc = "D75"
    /\ NetFrame
    /\ UNCHANGED << provider, scopeNetwork, network, subnet, idx >>
    /\ \/ /\ Failing("routers.Get", RouterName)
          /\ Return(ErrTransient)
          /\ UNCHANGED router
       \/ /\ Answered("routers.Get", RouterName, GetAnswer(routers, RouterName))
          /\ IF Exists(routers, RouterName)
               THEN /\ router' = Ptr(routers[RouterName])
                    /\ IF DeleteOwnsRouter(routers[RouterName])
                         THEN Goto("D81")
                         ELSE Goto("D86")
               ELSE router' = Nil /\ Goto("D86")

\* Delete: s.routers.Delete
DeleteRouterDelete ==
    /\ op = "Delete" /\ pc = "D81"
    /\ NetFrame
    /\ UNCHANGED << networks, subnetworks, scopeNetwork, locals >>
    /\ \/ /\ Failing("routers.Delete", RouterName)
          /\ Return(ErrTransient)
          /\ UNCHANGED routers
       \/ /\ Answered("routers.Delete", RouterName, DeleteAnswer(routers, RouterName))
          /\ routers' = Deleted(routers, RouterName)
          /\ Goto("D86")

\* Delete: s.networks.Delete, and the scope's references cleared
DeleteNetworkDelete ==
    /\ op = "Delete" /\ pc = "D86"
    /\ NetFrame
    /\ UNCHANGED << routers, subnetworks, locals >>
    /\ \/ /\ Failing("networks.Delete", NetworkName)
          /\ Return(ErrTransient)
          /\ UNCHANGED << networks, scopeNetwork >>
       \/ /\ Answered("networks.Delete", NetworkName, DeleteAnswer(networks, NetworkName))
          /\ IF Exists(networks, NetworkName)
               THEN /\ networks' = Deleted(networks, NetworkName)
                    /\ scopeNetwork' = [SelfLink |-> Nil, Router |-> Nil]
                    /\ Return(OK)
               ELSE Return(ErrNotFound) /\ UNCHANGED << networks, scopeNetwork >>

\* ------------------------------------------------------------------------
\* networks.Service: specification
\* ------------------------------------------------------------------------

RECURSIVE TotalRanges(_)
\* Number of range entries of a list of subnets.
TotalRanges(subs) ==
    IF subs = << >> THEN 0
    ELSE Len(Head(subs).SecondaryIpRanges) + TotalRanges(Tail(subs))

\* Spec lists of k subnets, named in order.
SubnetSpecLists(k) ==
    { [i \in 1..k |-> [Name |-> AllSubnetNames[i], SecondaryIpRanges |-> f[i]]] :
      f \in [1..k -> RangeLists] }

StoredSubnets ==
    [Description : Descriptions, Network : {NetworkSelfLink},
     SecondaryIpRanges : RangeLists]

StoredNetworks == [Description : Descriptions, SelfLink : {NetworkSelfLink}]

StoredRouters ==
    [Description : Descriptions, Network : {NetworkSelfLink},
     SelfLink : {RouterSelfLink}]

\* Every map from some of the keys to the objects.
Stores(keys, objects) == UNION { [s -> objects] : s \in SUBSET keys }

StoredRangeCount(store) ==
    LET RECURSIVE Sum(_)
        Sum(ks) == IF ks = {} THEN 0
                   ELSE LET k == CHOOSE x \in ks : TRUE
                        IN  Len(store[k].SecondaryIpRanges) + Sum(ks \ {k})
    IN  Sum(DOMAIN store)

\* Size of the desired part of an initial configuration.
SpecSize(specs) ==
    TotalRanges(specs) + (IF Len(specs) > 1 THEN 2 * (Len(specs) - 1) ELSE 0)

InitNet ==
    /\ subnetSpecs \in UNION { SubnetSpecLists(k) : k \in 0..MaxSubnets }
    /\ SpecSize(subnetSpecs) <= MaxInitSize
    /\ subnetworks \in Stores({ subnetSpecs[i].Name : i \in DOMAIN subnetSpecs },
                               StoredSubnets)
    /\ SpecSize(subnetSpecs) + StoredRangeCount(subnetworks) <= MaxInitSize
    /\ networks \in Stores({NetworkName}, StoredNetworks)
    /\ routers \in Stores({RouterName}, StoredRouters)
    /\ scopeNetwork = [SelfLink |-> Nil, Router |-> Nil]
    /\ op = "none" /\ pc = "done" /\ result = "none"
    /\ network = Nil /\ router = Nil /\ subnet = Nil /\ idx = 0
    /\ calls = << >> /\ faults = 0 /\ extern = 0
    /\ pre = Snapshot
    /\ settled = FALSE
    /\ instances = << >> /\ instanceGroups = << >>
    /\ scopeMachine = << >> /\ isControlPlane = FALSE /\ bootstrapData = Nil
    /\ instance = Nil /\ instanceList = {}
    /\ baseline = Nil
    /\ gcpCluster = Nil /\ clusterScope = Nil /\ ctrlResult = 0

NextNet ==
    \/ StartReconcile
    \/ ReconcileNetworkGet
    \/ ReconcileNetworkInsert
    \/ ReconcileNetworkReGet
    \/ ReconcileRouterGet
    \/ ReconcileRouterInsert
    \/ ReconcileRouterReGet
    \/ ReconcileSubnetGet
    \/ ReconcileSubnetInsert
    \/ ReconcileSubnetReGet
    \/ ReconcileSubnetPatch
    \/ StartDelete
    \/ DeleteSubnetGet
    \/ DeleteSubnetDelete
    \/ DeleteSubnetPatch
    \/ DeleteNetworkGet
    \/ DeleteRouterGet
    \/ DeleteRouterDelete
    \/ DeleteNetworkDelete

SpecNet == InitNet /\ [][NextNet]_vars

\* ------------------------------------------------------------------------
\* networks.Service next to another actor at the provider
\* ------------------------------------------------------------------------

\* What a change by another actor leaves alone: the engine's own state.
ExternFrame ==
    /\ CanFail
    /\ scopeMachine = << >>
    /\ extern' = extern + 1
    /\ UNCHANGED << scopeNetwork, subnetSpecs, op, pc, result, locals, calls,
                    faults, pre, settled, machineVars, baseline, clusterVars >>

\* What another actor creates does not carry this cluster's tag; its
\* subnets start without secondary range.
ExternalNetworks == { n \in StoredNetworks : n.Description # ClusterTagKey }

ExternalRouters == { r \in StoredRouters : r.Description # ClusterTagKey }

ExternalSubnets ==
    { sub \in StoredSubnets :
        sub.Description # ClusterTagKey /\ sub.SecondaryIpRanges = << >> }

\* Another actor's networks.Insert
ExternalInsertsNetwork ==
    /\ ExternFrame
    /\ ~Exists(networks, NetworkName)
    /\ \E n \in ExternalNetworks : networks' = Inserted(networks, NetworkName, n)
    /\ UNCHANGED << routers, subnetworks >>

\* Another actor's routers.Insert
ExternalInsertsRouter ==
    /\ ExternFrame
    /\ ~Exists(routers, RouterName)
    /\ \E r \in ExternalRouters : routers' = Inserted(routers, RouterName, r)
    /\ UNCHANGED << networks, subnetworks >>

\* Another actor's subnetworks.Insert
ExternalInsertsSubnet ==
    /\ ExternFrame
    /\ \E i \in DOMAIN subnetSpecs : \E sub \in ExternalSubnets :
          /\ ~Exists(subnetworks, subnetSpecs[i].Name)
          /\ subnetworks' = Inserted(subnetworks, subnetSpecs[i].Name, sub)
    /\ UNCHANGED << networks, routers >>

\* Another actor's networks.Delete
ExternalDeletesNetwork ==
    /\ ExternFrame
    /\ Exists(networks, NetworkName)
    /\ networks' = Deleted(networks, NetworkName)
    /\ UNCHANGED << routers, subnetworks >>

\* Another actor's routers.Delete
ExternalDeletesRouter ==
    /\ ExternFrame
    /\ Exists(routers, RouterName)
    /\ routers' = Deleted(routers, RouterName)
    /\ UNCHANGED << networks, subnetworks >>

\* Another actor's subnetworks.Delete
ExternalDeletesSubnet ==
    /\ ExternFrame
    /\ \E i \in DOMAIN subnetSpecs :
          /\ Exists(subnetworks, subnetSpecs[i].Name)
          /\ subnetworks' = Deleted(subnetworks, subnetSpecs[i].Name)
    /\ UNCHANGED << networks, routers >>

\* Another actor's subnetworks.Patch: one more secondary range on a subnet.
ExternalAddsRange ==
    /\ ExternFrame
    /\ \E i \in DOMAIN subnetSpecs : \E e \in RangeEntries :
          LET name == subnetSpecs[i].Name
          IN  /\ Exists(subnetworks, name)
              /\ e.RangeName \notin RangeNamesOf(subnetworks[name].SecondaryIpRanges)
              /\ subnetworks' =
                     [subnetworks EXCEPT ![name].SecondaryIpRanges = Append(@, e)]
    /\ UNCHANGED << networks, routers >>

NextExternal ==
    \/ ExternalInsertsNetwork
    \/ ExternalInsertsRouter
    \/ ExternalInsertsSubnet
    \/ ExternalDeletesNetwork
    \/ ExternalDeletesRouter
    \/ ExternalDeletesSubnet
    \/ ExternalAddsRange

NextEnv == NextNet \/ NextExternal

\* The configurations the engine shares with another actor.
InitEnv ==
    /\ InitNet
    /\ SpecSize(subnetSpecs) + StoredRangeCount(subnetworks) <= MaxEnvSize

SpecEnv == InitEnv /\ [][NextEnv]_vars

\* ------------------------------------------------------------------------
\* networks.Service over a scope that carries the output of earlier calls
\* ------------------------------------------------------------------------

\* s.scope.Network() as earlier calls of Reconcile can have left it: the
\* Router reference is recorded together with the self-link.
RecordedScopes ==
    { sc \in [SelfLink : {Nil, Ptr(NetworkSelfLink)}, Router : {Nil, Ptr(RouterSelfLink)}] :
         sc.Router # Nil => sc.SelfLink # Nil }

InitScope ==
    /\ subnetSpecs \in UNION { SubnetSpecLists(k) : k \in 0..MaxSubnets }
    /\ subnetworks \in Stores({ subnetSpecs[i].Name : i \in DOMAIN subnetSpecs },
                               StoredSubnets)
    /\ SpecSize(subnetSpecs) + StoredRangeCount(subnetworks) <= MaxEnvSize
    /\ networks \in Stores({NetworkName}, StoredNetworks)
    /\ routers \in Stores({RouterName}, StoredRouters)
    /\ scopeNetwork \in RecordedScopes
    /\ op = "none" /\ pc = "done" /\ result = "none"
    /\ network = Nil /\ router = Nil /\ subnet = Nil /\ idx = 0
    /\ calls = << >> /\ faults = 0 /\ extern = 0
    /\ pre = Snapshot
    /\ settled = FALSE
    /\ instances = << >> /\ instanceGroups = << >>
    /\ scopeMachine = << >> /\ isControlPlane = FALSE /\ bootstrapData = Nil
    /\ instance = Nil /\ instanceList = {}
    /\ baseline = Nil
    /\ gcpCluster = Nil /\ clusterScope = Nil /\ ctrlResult = 0

SpecScope == InitScope /\ [][NextNet]_vars

\* ------------------------------------------------------------------------
\* instances.Service: values and pure parts
\* ------------------------------------------------------------------------

\* s.scope.InstanceSpec().Name
InstanceName == "cp-0"

InstanceSelfLink == "zones/z1/instances/cp-0"

\* Another control-plane instance of the group, running throughout.
OtherInstanceSelfLink == "zones/z1/instances/cp-1"

\* s.scope.ControlPlaneGroupName()
GroupName == "cluster1-apiserver-z1"

ProviderID == "gce://project/z1/cp-0"

\* infrav1.InstanceStatusRunning
InstanceStatusRunning == "RUNNING"

Statuses == {"PROVISIONING", InstanceStatusRunning, "TERMINATED"}

\* errors.Wrap(err, "failed to retrieve bootstrap data")
ErrBootstrap == "failed to retrieve bootstrap data"

\* Network interfaces an instance can have.
InterfaceLists ==
    { << >>,
      << [NetworkIP |-> "10.0.0.2", AccessConfigs |-> << >>] >>,
      << [NetworkIP |-> "10.0.0.2", AccessConfigs |-> << "34.0.0.1", "34.0.0.2" >>],
         [NetworkIP |-> "10.1.0.2", AccessConfigs |-> << "34.0.0.3" >>] >> }

RECURSIVE ExternalAddresses(_)
\* Reconcile: the inner loop over iface.AccessConfigs
ExternalAddresses(natIPs) ==
    IF natIPs = << >> THEN << >>
    ELSE << [Type |-> "ExternalIP", Address |-> Head(natIPs)] >>
           \o ExternalAddresses(Tail(natIPs))

\* Mutant: the access-configs are left out.
MutNodeAddressesInternalOnly(ifaces) ==
    [k \in 1..Len(ifaces) |-> [Type |-> "InternalIP", Address |-> ifaces[k].NetworkIP]]

RECURSIVE NodeAddresses(_)
\* Reconcile: the loop over instance.NetworkInterfaces
NodeAddresses(ifaces) ==
    IF ifaces = << >> THEN << >>
    ELSE << [Type |-> "InternalIP", Address |-> Head(ifaces).NetworkIP] >>
           \o ExternalAddresses(Head(ifaces).AccessConfigs)
           \o NodeAddresses(Tail(ifaces))

\* registerControlPlaneInstance: InstanceState of the ListInstances request
RegisterListState == "RUNNING"

\* deregisterControlPlaneInstance: InstanceState of the ListInstances request
DeregisterListState == "RUNNING"

\* Mutant: no instance is ever registered.
MutRegisterNever(instanceSets, inst) == FALSE

\* Mutant: an instance is registered whatever its status.
MutRegisterAnyStatus(instanceSets, inst) == inst.SelfLink \notin instanceSets

\* Mutant: the membership test is inverted.
MutRegisterOnlyMembers(instanceSets, inst) ==
    inst.SelfLink \in instanceSets /\ inst.Status = InstanceStatusRunning

\* registerControlPlaneInstance:
\* !instanceSets.Has(instance.SelfLink) && instance.Status == RUNNING
ShouldRegister(instanceSets, inst) ==
    inst.SelfLink \notin instanceSets /\ inst.Status = InstanceStatusRunning

\* deregisterControlPlaneInstance:
\* len(instanceSets.List()) > 0 && instanceSets.Has(instance.SelfLink)
ShouldDeregister(instanceSets, inst) ==
    Cardinality(instanceSets) > 0 /\ inst.SelfLink \in instanceSets

\* ------------------------------------------------------------------------
\* instances.Service: provider
\* ------------------------------------------------------------------------

\* Status of the instance a member self-link names.
StatusOf(link) ==
    IF link # InstanceSelfLink THEN InstanceStatusRunning
    ELSE IF Exists(instances, InstanceName)
           THEN instances[InstanceName].Status ELSE "GONE"

\* instancegroups.ListInstances(key, {InstanceState: state}): the members
\* in that state ("ALL": every member).
ListedInstances(members, state) ==
    { m \in members : state = "ALL" \/ StatusOf(m) = state }

Members == IF Exists(instanceGroups, GroupName) THEN instanceGroups[GroupName] ELSE {}

\* What instances.Insert can create: status and interfaces are the provider's.
CreatedInstances ==
    [Status : {"PROVISIONING", InstanceStatusRunning},
     SelfLink : {InstanceSelfLink}, NetworkInterfaces : InterfaceLists]

MachineSnapshot ==
    [instances |-> instances, instanceGroups |-> instanceGroups,
     scopeMachine |-> scopeMachine]

\* ------------------------------------------------------------------------
\* instances.Service: control
\* ------------------------------------------------------------------------

\* What no step of a running instances operation changes.
MachineFrame ==
    UNCHANGED << netVars, op, pre, settled, isControlPlane, bootstrapData,
                 extern, baseline, clusterVars >>

\* An operation of instances.New(scope): the scope is a machine's.
BeginMachine(o) ==
    /\ pc = "done"
    /\ op' = o
    /\ calls' = << >>
    /\ scopeMachine # << >>
    /\ faults' = 0 /\ extern' = extern
    /\ pre' = MachineSnapshot
    /\ settled' = (op = "Reconcile" /\ result = OK)
    /\ instance' = Nil /\ instanceList' = {}
    /\ UNCHANGED << netVars, instances, instanceGroups, scopeMachine,
                    isControlPlane, bootstrapData, baseline, clusterVars >>

\* ------------------------------------------------------------------------
\* instances.Service.Reconcile
\* ------------------------------------------------------------------------

\* Mutant: createOrGetInstance goes on without bootstrap data.
MutStartWithoutBootstrapTest ==
    /\ BeginMachine("Reconcile")
    /\ pc' = "I115" /\ result' = "running"

\* Reconcile, and createOrGetInstance up to its first provider call: without
\* bootstrap data it returns at once.
StartInstanceReconcile ==
    /\ BeginMachine("Reconcile")
    /\ IF bootstrapData = Nil
         THEN Return(ErrBootstrap)
         ELSE pc' = "I115" /\ result' = "running"

\* Reconcile, after createOrGetInstance returned i: addresses, provider ID
\* and status go to the scope; a control-plane machine goes on to register.
GotInstance(i) ==
    /\ instance' = Ptr(i)
    /\ scopeMachine' = [ProviderID |-> Ptr(ProviderID),
                        Addresses |-> NodeAddresses(i.NetworkInterfaces),
                        InstanceStatus |-> Ptr(i.Status)]
    /\ IF isControlPlane THEN Goto("I142") ELSE Return(OK)

\* createOrGetInstance: s.instances.Get
InstanceGet ==
    /\ op = "Reconcile" /\ pc = "I115"
    /\ MachineFrame
    /\ UNCHANGED << instances, instanceGroups, instanceList >>
    /\ \/ /\ Failing("instances.Get", InstanceName)
          /\ Return(ErrTransient)
          /\ UNCHANGED << instance, scopeMachine >>
       \/ /\ Answered("instances.Get", InstanceName, GetAnswer(instances, InstanceName))
          /\ IF Exists(instances, InstanceName)
               THEN GotInstance(instances[InstanceName])
               ELSE Goto("I123") /\ UNCHANGED << instance, scopeMachine >>

\* createOrGetInstance: s.instances.Insert
InstanceInsert ==
    /\ op = "Reconcile" /\ pc = "I123"
    /\ MachineFrame
    /\ UNCHANGED << instanceGroups, scopeMachine, instance, instanceList >>
    /\ \/ /\ Failing("instances.Insert", InstanceName)
          /\ Return(ErrTransient)
          /\ UNCHANGED instances
       \/ /\ Answered("instances.Insert", InstanceName,
                      InsertAnswer(instances, InstanceName))
          /\ IF Exists(instances, InstanceName)
               THEN Return(ErrAlreadyExists) /\ UNCHANGED instances
               ELSE /\ \E created \in CreatedInstances :
                          instances' = Inserted(instances, InstanceName, created)
                    /\ Goto("I128")

\* createOrGetInstance: s.instances.Get after the Insert
InstanceReGet ==
    /\ op = "Reconcile" /\ pc = "I128"
    /\ MachineFrame
    /\ UNCHANGED << instances, instanceGroups, instanceList >>
    /\ \/ /\ Failing("instances.Get", InstanceName)
          /\ Return(ErrTransient)
          /\ UNCHANGED << instance, scopeMachine >>
       \/ /\ Answered("instances.Get", InstanceName, GetAnswer(instances, InstanceName))
          /\ IF Exists(instances, InstanceName)
               THEN GotInstance(instances[InstanceName])
               ELSE Return(ErrNotFound) /\ UNCHANGED << instance, scopeMachine >>

\* registerControlPlaneInstance: s.instancegroups.ListInstances, and the
\* test whether to add the instance
RegisterListInstances ==
    /\ op = "Reconcile" /\ pc = "I142"
    /\ MachineFrame
    /\ UNCHANGED << instances, instanceGroups, scopeMachine, instance >>
    /\ \/ /\ Failing("instancegroups.ListInstances", GroupName)
          /\ Return(ErrTransient)
          /\ UNCHANGED instanceList
       \/ /\ Answered("instancegroups.ListInstances", GroupName,
                      GetAnswer(instanceGroups, GroupName))
          /\ IF Exists(instanceGroups, GroupName)
               THEN /\ instanceList' = ListedInstances(Members, RegisterListState)
                    /\ IF ShouldRegister(instanceList', Deref(instance))
                         THEN Goto("I158")
                         ELSE Return(OK)
               ELSE Return(ErrNotFound) /\ UNCHANGED instanceList

\* registerControlPlaneInstance: s.instancegroups.AddInstances; the key of
\* the log entry is the instance reference of the request.
RegisterAddInstances ==
    /\ op = "Reconcile" /\ pc = "I158"
    /\ MachineFrame
    /\ UNCHANGED << instances, scopeMachine, instance, instanceList >>
    /\ \/ /\ Failing("instancegroups.AddInstances", Deref(instance).SelfLink)
          /\ Return(ErrTransient)
          /\ UNCHANGED instanceGroups
       \/ /\ Answered("instancegroups.AddInstances", Deref(instance).SelfLink,
                      GetAnswer(instanceGroups, GroupName))
          /\ IF Exists(instanceGroups, GroupName)
               THEN /\ instanceGroups' =
                           [instanceGroups EXCEPT ![GroupName] =
                               @ \cup {Deref(instance).SelfLink}]
                    /\ Return(OK)
               ELSE Return(ErrNotFound) /\ UNCHANGED instanceGroups

\* ------------------------------------------------------------------------
\* instances.Service.Delete
\* ------------------------------------------------------------------------

StartInstanceDelete ==
    /\ BeginMachine("Delete")
    /\ pc' = "X77" /\ result' = "running"

\* Delete: s.instances.Get
DeleteInstanceGet ==
    /\ op = "Delete" /\ pc = "X77"
    /\ MachineFrame
    /\ UNCHANGED << instances, instanceGroups, scopeMachine, instanceList >>
    /\ \/ /\ Failing("instances.Get", InstanceName)
          /\ Return(ErrTransient)
          /\ UNCHANGED instance
       \/ /\ Answered("instances.Get", InstanceName, GetAnswer(instances, InstanceName))
          /\ IF Exists(instances, InstanceName)
               THEN /\ instance' = Ptr(instances[InstanceName])
                    /\ IF isControlPlane THEN Goto("X177") ELSE Goto("X94")
               ELSE Return(OK) /\ UNCHANGED instance

\* deregisterControlPlaneInstance: s.instancegroups.ListInstances, and the
\* test whether to remove the instance
DeregisterListInstances ==
    /\ op = "Delete" /\ pc = "X177"
    /\ MachineFrame
    /\ UNCHANGED << instances, instanceGroups, scopeMachine, instance >>
    /\ \/ /\ Failing("instancegroups.ListInstances", GroupName)
          /\ Return(ErrTransient)
          /\ UNCHANGED instanceList
       \/ /\ Answered("instancegroups.ListInstances", GroupName,
                      GetAnswer(instanceGroups, GroupName))
          /\ IF Exists(instanceGroups, GroupName)
               THEN /\ instanceList' = ListedInstances(Members, DeregisterListState)
                    /\ IF ShouldDeregister(instanceList', Deref(instance))
                         THEN Goto("X192")
                         ELSE Goto("X94")
               ELSE Return(ErrNotFound) /\ UNCHANGED instanceList

\* deregisterControlPlaneInstance: s.instancegroups.RemoveInstances
DeregisterRemoveInstances ==
    /\ op = "Delete" /\ pc = "X192"
    /\ MachineFrame
    /\ UNCHANGED << instances, scopeMachine, instance, instanceList >>
    /\ \/ /\ Failing("instancegroups.RemoveInstances", Deref(instance).SelfLink)
          /\ Return(ErrTransient)
          /\ UNCHANGED instanceGroups
       \/ /\ Answered("instancegroups.RemoveInstances", Deref(instance).SelfLink,
                      GetAnswer(instanceGroups, GroupName))
          /\ IF Exists(instanceGroups, GroupName)
               THEN /\ instanceGroups' =
                           [instanceGroups EXCEPT ![GroupName] =
                               @ \ {Deref(instance).SelfLink}]
                    /\ Goto("X94")
               ELSE Return(ErrNotFound) /\ UNCHANGED instanceGroups

\* Delete: gcperrors.IgnoreNotFound(s.instances.Delete)
DeleteInstanceDelete ==
    /\ op = "Delete" /\ pc = "X94"
    /\ MachineFrame
    /\ UNCHANGED << instanceGroups, scopeMachine, instance, instanceList >>
    /\ \/ /\ Failing("instances.Delete", InstanceName)
          /\ Return(IgnoreNotFound(ErrTransient))
          /\ UNCHANGED instances
       \/ /\ Answered("instances.Delete", InstanceName,
                      DeleteAnswer(instances, InstanceName))
          /\ instances' = Deleted(instances, InstanceName)
          /\ Return(IgnoreNotFound(DeleteAnswer(instances, InstanceName)))

\* ------------------------------------------------------------------------
\* instances.Service: environment and specification
\* ------------------------------------------------------------------------

\* Between two operations the provider moves the instance to another status.
InstanceStatusChanges ==
    /\ pc = "done"
    /\ scopeMachine # << >>
    /\ Exists(instances, InstanceName)
    /\ \E st \in Statuses \ {instances[InstanceName].Status} :
          instances' = [instances EXCEPT ![InstanceName].Status = st]
    /\ op' = "StatusChange" /\ result' = "none" /\ calls' = << >>
    /\ UNCHANGED << netVars, pc, faults, pre, settled, instanceGroups,
                    scopeMachine, isControlPlane, bootstrapData, instance,
                    instanceList, extern, baseline, clusterVars >>

\* Between two operations the bootstrap secret of the machine appears.
BootstrapDataAppears ==
    /\ pc = "done"
    /\ scopeMachine # << >>
    /\ bootstrapData = Nil
    /\ bootstrapData' = Ptr("cloud-init")
    /\ op' = "BootstrapData" /\ result' = "none" /\ calls' = << >>
    /\ UNCHANGED << netVars, pc, faults, pre, settled, instances, instanceGroups,
                    scopeMachine, isControlPlane, instance, instanceList,
                    extern, baseline, clusterVars >>

StoredInstances ==
    [Status : Statuses, SelfLink : {InstanceSelfLink},
     NetworkInterfaces : InterfaceLists]

InitInst ==
    /\ instances \in Stores({InstanceName}, StoredInstances)
    /\ instanceGroups \in
          Stores({GroupName}, SUBSET {InstanceSelfLink, OtherInstanceSelfLink})
    /\ InstanceSelfLink \in Members => StatusOf(InstanceSelfLink) = InstanceStatusRunning
    /\ isControlPlane \in BOOLEAN
    /\ bootstrapData \in {Nil, Ptr("cloud-init")}
    /\ scopeMachine = [ProviderID |-> Nil, Addresses |-> << >>, InstanceStatus |-> Nil]
    /\ instance = Nil /\ instanceList = {}
    /\ op = "none" /\ pc = "done" /\ result = "none"
    /\ calls = << >> /\ faults = 0 /\ settled = FALSE
    /\ pre = MachineSnapshot
    /\ networks = << >> /\ routers = << >> /\ subnetworks = << >>
    /\ scopeNetwork = [SelfLink |-> Nil, Router |-> Nil]
    /\ subnetSpecs = << >>
    /\ network = Nil /\ router = Nil /\ subnet = Nil /\ idx = 0
    /\ extern = 0 /\ baseline = Nil
    /\ gcpCluster = Nil /\ clusterScope = Nil /\ ctrlResult = 0

NextInst ==
    \/ StartInstanceReconcile
    \/ InstanceGet
    \/ InstanceInsert
    \/ InstanceReGet
    \/ RegisterListInstances
    \/ RegisterAddInstances
    \/ StartInstanceDelete
    \/ DeleteInstanceGet
    \/ DeregisterListInstances
    \/ DeregisterRemoveInstances
    \/ DeleteInstanceDelete
    \/ InstanceStatusChanges
    \/ BootstrapDataAppears

SpecInst == InitInst /\ [][NextInst]_vars

\* ------------------------------------------------------------------------
\* instances.Service.Reconcile over the interfaces an instance can have
\* ------------------------------------------------------------------------

\* Sequences of at most n elements of S.
SeqsUpTo(S, n) == UNION { [1..k -> S] : k \in 0..n }

NetworkIPs == {"10.0.0.2", "10.1.0.2"}

NatIPs == {"34.0.0.1", "34.0.0.2"}

\* instance.NetworkInterfaces as the provider can return them.
AllInterfaceLists ==
    SeqsUpTo([NetworkIP : NetworkIPs, AccessConfigs : SeqsUpTo(NatIPs, MaxAccessConfigs)],
             MaxInterfaces)

\* A worker machine with bootstrap data whose instance exists and is RUNNING.
InitAddr ==
    /\ \E ifaces \in AllInterfaceLists :
          instances = Inserted(<< >>, InstanceName,
                               [Status |-> InstanceStatusRunning,
                                SelfLink |-> InstanceSelfLink,
                                NetworkInterfaces |-> ifaces])
    /\ instanceGroups = << >>
    /\ isControlPlane = FALSE
    /\ bootstrapData = Ptr("cloud-init")
    /\ scopeMachine = [ProviderID |-> Nil, Addresses |-> << >>, InstanceStatus |-> Nil]
    /\ instance = Nil /\ instanceList = {}
    /\ op = "none" /\ pc = "done" /\ result = "none"
    /\ calls = << >> /\ faults = 0 /\ settled = FALSE
    /\ pre = MachineSnapshot
    /\ networks = << >> /\ routers = << >> /\ subnetworks = << >>
    /\ scopeNetwork = [SelfLink |-> Nil, Router |-> Nil]
    /\ subnetSpecs = << >>
    /\ network = Nil /\ router = Nil /\ subnet = Nil /\ idx = 0
    /\ extern = 0 /\ baseline = Nil
    /\ gcpCluster = Nil /\ clusterScope = Nil /\ ctrlResult = 0

NextAddr ==
    \/ StartInstanceReconcile
    \/ InstanceGet

SpecAddr == InitAddr /\ [][NextAddr]_vars

\* ------------------------------------------------------------------------
\* instances.Service under a trigger that keeps invoking Reconcile
\* ------------------------------------------------------------------------

\* The steps of a running Reconcile or Delete: a call that was made returns.
InstanceSteps ==
    \/ InstanceGet
    \/ InstanceInsert
    \/ InstanceReGet
    \/ RegisterListInstances
    \/ RegisterAddInstances
    \/ DeleteInstanceGet
    \/ DeregisterListInstances
    \/ DeregisterRemoveInstances
    \/ DeleteInstanceDelete

\* A started operation runs to its return, and the machine controller
\* invokes Reconcile again and again.
SpecInstLive ==
    /\ InitInst
    /\ [][NextInst]_vars
    /\ WF_vars(InstanceSteps)
    /\ SF_vars(StartInstanceReconcile)

\* ------------------------------------------------------------------------
\* instances.Service next to another actor at the provider
\* ------------------------------------------------------------------------

\* Another actor's instances.Delete while an operation of the service runs.
ExternalDeletesInstance ==
    /\ CanFail
    /\ scopeMachine # << >>
    /\ pc # "done"
    /\ Exists(instances, InstanceName)
    /\ instances' = Deleted(instances, InstanceName)
    /\ extern' = extern + 1
    /\ UNCHANGED << netVars, op, pc, result, calls, faults, pre, settled,
                    instanceGroups, scopeMachine, isControlPlane, bootstrapData,
                    instance, instanceList, baseline, clusterVars >>

\* Between two operations the bootstrap secret of the machine is removed:
\* s.scope.GetBootstrapData() fails from then on.
BootstrapDataLost ==
    /\ pc = "done"
    /\ scopeMachine # << >>
    /\ bootstrapData # Nil
    /\ bootstrapData' = Nil
    /\ op' = "BootstrapData" /\ result' = "none" /\ calls' = << >>
    /\ UNCHANGED << netVars, pc, faults, pre, settled, instances, instanceGroups,
                    scopeMachine, isControlPlane, instance, instanceList,
                    extern, baseline, clusterVars >>

NextInstEnv ==
    \/ NextInst
    \/ ExternalDeletesInstance
    \/ BootstrapDataLost

SpecInstEnv == InitInst /\ [][NextInstEnv]_vars

\* ------------------------------------------------------------------------
\* Both services, each constructed over its own scope
\* ------------------------------------------------------------------------

InitServices == InitNet \/ InitInst

NextServices == NextNet \/ NextInst

SpecServices == InitServices /\ [][NextServices]_vars

\* ------------------------------------------------------------------------
\* GCPClusterReconciler: values and pure parts
\* ------------------------------------------------------------------------

\* req.NamespacedName
ClusterName == "cluster1"

\* infrav1.ClusterFinalizer
ClusterFinalizer == "gcpcluster.infrastructure.cluster.x-k8s.io"

\* ctrl.Result{RequeueAfter: 5 * time.Second}, in seconds
EndpointRequeueSeconds == 5

\* errors.Errorf("failed to create scope: %+v", err)
ErrScope == "failed to create scope"

\* What Zones().List can answer for the region.
ZoneLists == { {"z1"}, {"z1", "z2"} }

\* clusterScope.ControlPlaneEndpoint().Host once the address is known
EndpointHost == "34.0.0.9"

\* The GCPCluster objects, with what the controller reads and writes.
GCPClusters ==
    [OwnerRef : BOOLEAN, Paused : BOOLEAN, DeletionTimestamp : BOOLEAN,
     Finalizers : SUBSET {ClusterFinalizer},
     SpecFailureDomains : { {}, {"z1"} },
     FailureDomains : { {} }, Ready : BOOLEAN, Host : {"", EndpointHost}]

\* reconcile: the zones that become control-plane failure domains
FailureDomainsOf(zones, specFailureDomains) ==
    IF Cardinality(specFailureDomains) > 0
      THEN { z \in zones : \E fd \in specFailureDomains : fd = z }
      ELSE zones

\* clusterScope.PatchObject(): what the controller set on its object goes
\* to the stored one.
PatchObject(stored, obj) ==
    IF stored = Nil THEN Nil
    ELSE Ptr([Deref(stored) EXCEPT !.Finalizers = obj.Finalizers,
                                    !.FailureDomains = obj.FailureDomains,
                                    !.Ready = obj.Ready,
                                    !.Host = obj.Host])

\* ------------------------------------------------------------------------
\* GCPClusterReconciler: control
\* ------------------------------------------------------------------------

\* What no step of the controller changes.
ClusterFrame ==
    UNCHANGED << netVars, machineVars, faults, pre, settled, extern, baseline >>

\* A call the controller makes, and its answer.
ClusterCall(api, err) == calls' = Append(calls, Call(api, ClusterName, err))

\* `return ctrl.Result{}, err` inside reconcile or reconcileDelete: the
\* deferred clusterScope.Close() runs next.
ClusterReturn(err) == pc' = "C148" /\ result' = err

\* Mutant: the error of a component is logged and the chain goes on.
MutAfterComponentGoesOn(err, next) == pc' = next /\ result' = result

\* `if err := <component>; err != nil { ...; return ctrl.Result{}, err }`
AfterComponent(err, next) ==
    IF err # OK THEN ClusterReturn(err) ELSE pc' = next /\ result' = result

\* One step of a running controller call, at position p.
ClusterStep(p) ==
    /\ op = "ClusterReconcile" /\ pc = p
    /\ op' = op /\ ctrlResult' = ctrlResult
    /\ ClusterFrame

\* A component of the cluster's infrastructure is called: it fails or not.
ComponentCall(api, next) ==
    \E err \in {OK, ErrTransient} :
       /\ ClusterCall(api, err)
       /\ AfterComponent(err, next)

\* ------------------------------------------------------------------------
\* GCPClusterReconciler.Reconcile
\* ------------------------------------------------------------------------

\* Reconcile: r.Get of the GCPCluster
ClusterReconcileGet ==
    /\ pc = "done"
    /\ op' = "ClusterReconcile" /\ ctrlResult' = 0
    /\ ClusterFrame
    /\ UNCHANGED gcpCluster
    /\ \/ /\ calls' = << Call("GCPCluster.Get", ClusterName, ErrTransient) >>
          /\ Return(ErrTransient)
          /\ clusterScope' = Nil
       \/ /\ gcpCluster = Nil
          /\ calls' = << Call("GCPCluster.Get", ClusterName, ErrNotFound) >>
          /\ Return(OK)
          /\ clusterScope' = Nil
       \/ /\ gcpCluster # Nil
          /\ calls' = << Call("GCPCluster.Get", ClusterName, OK) >>
          /\ pc' = "C120" /\ result' = "running"
          /\ clusterScope' = gcpCluster

\* Reconcile: owner cluster, pause test, scope, and the choice of the path
ClusterReconcileScope ==
    /\ ClusterStep("C120")
    /\ UNCHANGED << gcpCluster, clusterScope >>
    /\ \/ /\ ClusterCall("GetOwnerCluster", ErrTransient)
          /\ Return(ErrTransient)
       \/ /\ ClusterCall("GetOwnerCluster", OK)
          /\ IF ~Deref(clusterScope).OwnerRef THEN Return(OK)
             ELSE IF Deref(clusterScope).Paused THEN Return(OK)
             ELSE \/ Return(ErrScope)
                  \/ /\ result' = OK
                     /\ pc' = IF Deref(clusterScope).DeletionTimestamp
                                THEN "C239" ELSE "C166"

\* The deferred clusterScope.Close()
ClusterScopeClose ==
    /\ ClusterStep("C148")
    /\ UNCHANGED clusterScope
    /\ pc' = "done"
    /\ \/ /\ ClusterCall("Close", ErrTransient)
          /\ result' = IF result = OK THEN ErrTransient ELSE result
          /\ UNCHANGED gcpCluster
       \/ /\ ClusterCall("Close", IF gcpCluster = Nil THEN ErrNotFound ELSE OK)
          /\ result' = IF result = OK /\ gcpCluster = Nil THEN ErrNotFound ELSE result
          /\ gcpCluster' = PatchObject(gcpCluster, Deref(clusterScope))

\* ------------------------------------------------------------------------
\* GCPClusterReconciler.reconcile
\* ------------------------------------------------------------------------

\* reconcile: AddFinalizer and PatchObject
ReconcileFinalizer ==
    /\ ClusterStep("C166")
    /\ LET obj == [Deref(clusterScope) EXCEPT !.Finalizers = @ \cup {ClusterFinalizer}]
       IN  /\ clusterScope' = Ptr(obj)
           /\ \/ /\ ClusterCall("PatchObject", ErrTransient)
                 /\ ClusterReturn(ErrTransient)
                 /\ UNCHANGED gcpCluster
              \/ /\ gcpCluster = Nil
                 /\ ClusterCall("PatchObject", ErrNotFound)
                 /\ ClusterReturn(ErrNotFound)
                 /\ UNCHANGED gcpCluster
              \/ /\ gcpCluster # Nil
                 /\ ClusterCall("PatchObject", OK)
                 /\ gcpCluster' = PatchObject(gcpCluster, obj)
                 /\ pc' = "C171" /\ result' = result

\* reconcile: Regions().Get
ReconcileRegion ==
    /\ ClusterStep("C171")
    /\ UNCHANGED << gcpCluster, clusterScope >>
    /\ \E err \in {OK, ErrTransient} :
          /\ ClusterCall("Regions.Get", err)
          /\ AfterComponent(err, "C176")

\* reconcile: Zones().List and SetFailureDomains
ReconcileZones ==
    /\ ClusterStep("C176")
    /\ UNCHANGED gcpCluster
    /\ \/ /\ ClusterCall("Zones.List", ErrTransient)
          /\ ClusterReturn(ErrTransient)
          /\ UNCHANGED clusterScope
       \/ /\ ClusterCall("Zones.List", OK)
          /\ \E zones \in ZoneLists :
                clusterScope' =
                   Ptr([Deref(clusterScope) EXCEPT !.FailureDomains =
                          FailureDomainsOf(zones, Deref(clusterScope).SpecFailureDomains)])
          /\ pc' = "C201" /\ result' = result

\* reconcile: networks.New(clusterScope).Reconcile(ctx)
ReconcileNetworks ==
    /\ ClusterStep("C201")
    /\ UNCHANGED << gcpCluster, clusterScope >>
    /\ ComponentCall("networks.Reconcile", "C208")

\* reconcile: firewalls.New(clusterScope).Reconcile(ctx)
ReconcileFirewalls ==
    /\ ClusterStep("C208")
    /\ UNCHANGED << gcpCluster, clusterScope >>
    /\ ComponentCall("firewalls.Reconcile", "C215")

\* reconcile: loadbalancers.New(clusterScope).Reconcile(ctx), which records
\* the control-plane endpoint once the address has one
ReconcileLoadBalancers ==
    /\ ClusterStep("C215")
    /\ UNCHANGED gcpCluster
    /\ \E err \in {OK, ErrTransient} :
          /\ ClusterCall("loadbalancers.Reconcile", err)
          /\ AfterComponent(err, "C221")
          /\ IF err = OK
               THEN \E host \in {Deref(clusterScope).Host, EndpointHost} :
                       clusterScope' = Ptr([Deref(clusterScope) EXCEPT !.Host = host])
               ELSE UNCHANGED clusterScope

\* Mutant: the cluster is marked ready whatever the endpoint is.
MutReconcileEndpointAlwaysReady ==
    /\ op = "ClusterReconcile" /\ pc = "C221"
    /\ op' = op /\ calls' = calls
    /\ ClusterFrame
    /\ UNCHANGED gcpCluster
    /\ ClusterReturn(OK)
    /\ ctrlResult' = ctrlResult
    /\ clusterScope' = Ptr([Deref(clusterScope) EXCEPT !.Ready = TRUE])

\* reconcile: the control-plane endpoint test and SetReady
ReconcileEndpoint ==
    /\ op = "ClusterReconcile" /\ pc = "C221"
    /\ op' = op /\ calls' = calls
    /\ ClusterFrame
    /\ UNCHANGED gcpCluster
    /\ ClusterReturn(OK)
    /\ IF Deref(clusterScope).Host = ""
         THEN ctrlResult' = EndpointRequeueSeconds /\ UNCHANGED clusterScope
         ELSE /\ ctrlResult' = ctrlResult
              /\ clusterScope' = Ptr([Deref(clusterScope) EXCEPT !.Ready = TRUE])

\* ------------------------------------------------------------------------
\* GCPClusterReconciler.reconcileDelete
\* ------------------------------------------------------------------------

\* reconcileDelete: loadbalancers.New(clusterScope).Delete(ctx)
DeleteLoadBalancers ==
    /\ ClusterStep("C239")
    /\ UNCHANGED << gcpCluster, clusterScope >>
    /\ ComponentCall("loadbalancers.Delete", "C246")

\* reconcileDelete: firewalls.New(clusterScope).Delete(ctx)
DeleteFirewalls ==
    /\ ClusterStep("C246")
    /\ UNCHANGED << gcpCluster, clusterScope >>
    /\ ComponentCall("firewalls.Delete", "C253")

\* Mutant: the finalizer is removed whatever networks.Delete answers.
MutDeleteNetworksDropsFinalizer ==
    /\ ClusterStep("C253")
    /\ UNCHANGED gcpCluster
    /\ \E err \in {OK, ErrTransient} :
          /\ ClusterCall("networks.Delete", err)
          /\ AfterComponent(err, "C148")
          /\ clusterScope' =
                Ptr([Deref(clusterScope) EXCEPT !.Finalizers = @ \ {ClusterFinalizer}])

\* reconcileDelete: networks.New(clusterScope).Delete(ctx), then
\* RemoveFinalizer
DeleteNetworks ==
    /\ ClusterStep("C253")
    /\ UNCHANGED gcpCluster
    /\ \E err \in {OK, ErrTransient} :
          /\ ClusterCall("networks.Delete", err)
          /\ AfterComponent(err, "C148")
          /\ IF err = OK
               THEN clusterScope' =
                       Ptr([Deref(clusterScope) EXCEPT !.Finalizers = @ \ {ClusterFinalizer}])
               ELSE UNCHANGED clusterScope

\* ------------------------------------------------------------------------
\* The GCPCluster object at the API server, between controller calls
\* ------------------------------------------------------------------------

ClusterEnvFrame ==
    /\ ClusterFrame
    /\ UNCHANGED << op, pc, result, calls, clusterScope, ctrlResult >>

\* The user deletes the GCPCluster: the deletion timestamp is set.
ClusterDeletionRequested ==
    /\ gcpCluster # Nil
    /\ ~Deref(gcpCluster).DeletionTimestamp
    /\ Deref(gcpCluster).Finalizers # {}
    /\ gcpCluster' = Ptr([Deref(gcpCluster) EXCEPT !.DeletionTimestamp = TRUE])
    /\ ClusterEnvFrame

\* A GCPCluster under deletion is removed once no finalizer is left.
ClusterObjectRemoved ==
    /\ gcpCluster # Nil
    /\ Deref(gcpCluster).DeletionTimestamp
    /\ Deref(gcpCluster).Finalizers = {}
    /\ gcpCluster' = Nil
    /\ ClusterEnvFrame

\* ------------------------------------------------------------------------
\* GCPClusterReconciler: specification
\* ------------------------------------------------------------------------

\* A GCPCluster as the API server can hold it: ready only with an endpoint
\* and a finalizer, under deletion only while a finalizer is left.
StoredGCPClusters ==
    {c \in GCPClusters :
       /\ c.Ready => (c.Host # "" /\ c.Finalizers # {})
       /\ c.DeletionTimestamp => c.Finalizers # {}}

InitCluster ==
    /\ networks = << >> /\ routers = << >> /\ subnetworks = << >>
    /\ scopeNetwork = [SelfLink |-> Nil, Router |-> Nil]
    /\ subnetSpecs = << >>
    /\ network = Nil /\ router = Nil /\ subnet = Nil /\ idx = 0
    /\ instances = << >> /\ instanceGroups = << >>
    /\ scopeMachine = << >> /\ isControlPlane = FALSE
    /\ bootstrapData = Nil /\ instance = Nil /\ instanceList = {}
    /\ op = "none" /\ pc = "done" /\ result = "none"
    /\ calls = << >> /\ faults = 0 /\ extern = 0
    /\ pre = Snapshot /\ settled = FALSE /\ baseline = Nil
    /\ gcpCluster \in {Nil} \cup {Ptr(c) : c \in StoredGCPClusters}
    /\ clusterScope = Nil /\ ctrlResult = 0

NextCluster ==
    \/ ClusterReconcileGet
    \/ ClusterReconcileScope
    \/ ClusterScopeClose
    \/ ReconcileFinalizer
    \/ ReconcileRegion
    \/ ReconcileZones
    \/ ReconcileNetworks
    \/ ReconcileFirewalls
    \/ ReconcileLoadBalancers
    \/ ReconcileEndpoint
    \/ DeleteLoadBalancers
    \/ DeleteFirewalls
    \/ DeleteNetworks
    \/ ClusterDeletionRequested
    \/ ClusterObjectRemoved

SpecCluster == InitCluster /\ [][NextCluster]_vars

\* ------------------------------------------------------------------------
\* networks.Service: properties
\* ------------------------------------------------------------------------

Issued(api, key) == \E i \in DOMAIN calls : calls[i].api = api /\ calls[i].key = key

IssuedOK(api, key) ==
    \E i \in DOMAIN calls : calls[i] = Call(api, key, OK)

ApisIssued == { calls[i].api : i \in DOMAIN calls }

Finished(o) == op = o /\ pc = "done"

Succeeded(o) == Finished(o) /\ result = OK

\* The network this operation fetched belongs to somebody else.
FetchedForeignNetwork ==
    network # Nil /\ Deref(network).Description # ClusterTagKey

\* C1: while Reconcile holds a fetched network whose description is not the
\* ownership tag, it has issued no router Get, Insert or Delete and the
\* scope's Router reference is what it was when Reconcile started.
C1_ReconcileLeavesRouterOfForeignNetwork ==
    (op = "Reconcile" /\ FetchedForeignNetwork) =>
        /\ ApisIssued \cap {"routers.Get", "routers.Insert", "routers.Delete"} = {}
        /\ scopeNetwork.Router = pre.scopeNetwork.Router

\* C1 witness: Reconcile ran to its end on a foreign network that has no
\* router, through at least one subnet.
C1_Witness ==
    /\ Succeeded("Reconcile") /\ FetchedForeignNetwork
    /\ ~Exists(routers, RouterName)
    /\ "subnetworks.Get" \in ApisIssued

\* C2: when Delete fetched a network whose description is not the ownership
\* tag, it has returned success, it issued no network Delete and no router
\* Get or Delete, and network and router are as they were.
C2_DeleteLeavesForeignNetwork ==
    (op = "Delete" /\ FetchedForeignNetwork) =>
        /\ pc = "done" /\ result = OK
        /\ ApisIssued \cap {"networks.Delete", "routers.Get", "routers.Delete"} = {}
        /\ Exists(networks, NetworkName)
        /\ networks = pre.networks /\ routers = pre.routers

\* C2 witness: Delete returned on a foreign network next to which a router
\* tagged for this cluster exists.
C2_Witness ==
    /\ Succeeded("Delete") /\ FetchedForeignNetwork
    /\ Exists(routers, RouterName)
    /\ routers[RouterName].Description = ClusterTagKey

\* O is a prefix of N.
IsPrefix(O, N) == Len(O) <= Len(N) /\ \A j \in DOMAIN O : N[j] = O[j]

\* C3: after a successful Reconcile every subnet of the spec that existed
\* before holds exactly the range names it had plus those of the spec, its
\* former entries unchanged and first; and a Reconcile that follows a
\* successful Reconcile issues no Patch.
C3_ReconcileMergesRanges ==
    /\ Succeeded("Reconcile") =>
          \A i \in DOMAIN subnetSpecs :
             LET name == subnetSpecs[i].Name
             IN  Exists(pre.subnetworks, name) =>
                   LET O == pre.subnetworks[name].SecondaryIpRanges
                       D == subnetSpecs[i].SecondaryIpRanges
                       N == subnetworks[name].SecondaryIpRanges
                   IN  /\ RangeNamesOf(N) = RangeNamesOf(O) \cup RangeNamesOf(D)
                       /\ IsPrefix(O, N)
    /\ (op = "Reconcile" /\ settled) => "subnetworks.Patch" \notin ApisIssued

\* C3 witness: a subnet that held A got a spec with another CIDR for A and
\* with B; it now holds its own A, then B.
C3_Witness ==
    /\ Succeeded("Reconcile")
    /\ \E i \in DOMAIN subnetSpecs :
          LET name == subnetSpecs[i].Name
          IN  /\ Exists(pre.subnetworks, name)
              /\ pre.subnetworks[name].SecondaryIpRanges =
                    << [RangeName |-> "A", IpCidrRange |-> "10.0.0.0/24"] >>
              /\ subnetSpecs[i].SecondaryIpRanges =
                    << [RangeName |-> "A", IpCidrRange |-> "10.0.9.0/24"],
                       [RangeName |-> "B", IpCidrRange |-> "10.0.1.0/24"] >>
              /\ subnetworks[name].SecondaryIpRanges =
                    << [RangeName |-> "A", IpCidrRange |-> "10.0.0.0/24"],
                       [RangeName |-> "B", IpCidrRange |-> "10.0.1.0/24"] >>
              /\ IssuedOK("subnetworks.Patch", name)

\* The observed entries whose name the spec does not hold, in order.
WithoutNames(O, names) == SelectSeq(O, LAMBDA e : e.RangeName \notin names)

\* C4 (as claimed): for a subnet Delete fetched and found not to carry the
\* ownership tag, no Delete call is issued on it; when the spec names one
\* of its ranges it is patched to its ranges minus those the spec names;
\* and no Patch is issued when the spec names none of its ranges.
C4_DeleteRestoresForeignSubnet ==
    op = "Delete" =>
      \A i \in DOMAIN subnetSpecs :
         LET name == subnetSpecs[i].Name
             O == pre.subnetworks[name].SecondaryIpRanges
             D == RangeNamesOf(subnetSpecs[i].SecondaryIpRanges)
             patchDue == pc = "D254" /\ idx = i
         IN  (/\ IssuedOK("subnetworks.Get", name)
              /\ pre.subnetworks[name].Description # ClusterTagKey) =>
               /\ ~Issued("subnetworks.Delete", name)
               /\ RangeNamesOf(O) \cap D # {} =>
                     /\ patchDue \/ Issued("subnetworks.Patch", name)
                     /\ IssuedOK("subnetworks.Patch", name) =>
                           subnetworks[name].SecondaryIpRanges = WithoutNames(O, D)
               /\ RangeNamesOf(O) \cap D = {} =>
                     ~patchDue /\ ~Issued("subnetworks.Patch", name)

\* C5 (as claimed): whatever part of network, router and subnets exists,
\* a Delete that no provider call failed returns success.
C5_DeleteToleratesPartialState ==
    (Finished("Delete") /\ faults = 0) => result = OK

\* C6: a Reconcile that follows a successful Reconcile issues Get calls
\* only, changes nothing at the provider, and returns with the recorded
\* self-links unchanged.
C6_SecondReconcileOnlyReads ==
    (op = "Reconcile" /\ settled) =>
        /\ ApisIssued \subseteq {"networks.Get", "routers.Get", "subnetworks.Get"}
        /\ networks = pre.networks /\ routers = pre.routers
        /\ subnetworks = pre.subnetworks
        /\ Finished("Reconcile") =>
              (faults = 0 => result = OK) /\
              (result = OK => scopeNetwork = pre.scopeNetwork)

\* C6 witness: the second Reconcile returned success on an owned network
\* with its router and a subnet that holds two ranges.
C6_Witness ==
    /\ Succeeded("Reconcile") /\ settled
    /\ router # Nil
    /\ scopeNetwork.Router = Ptr(RouterSelfLink)
    /\ \E i \in DOMAIN subnetSpecs :
          /\ Len(subnetworks[subnetSpecs[i].Name].SecondaryIpRanges) = 2
          /\ IssuedOK("subnetworks.Get", subnetSpecs[i].Name)

\* Nothing exists at the provider.
EmptyProvider(snap) ==
    snap.networks = << >> /\ snap.routers = << >> /\ snap.subnetworks = << >>

\* C10: a successful Reconcile that started on an empty provider leaves the
\* network, the router and every subnet of the spec; router and subnets
\* carry the ownership tag and the network's self-link; the scope records
\* the self-links of network and router.
C10_ReconcileCreatesEverything ==
    (Succeeded("Reconcile") /\ EmptyProvider(pre)) =>
        /\ Exists(networks, NetworkName)
        /\ Exists(routers, RouterName)
        /\ routers[RouterName].Description = ClusterTagKey
        /\ routers[RouterName].Network = networks[NetworkName].SelfLink
        /\ \A i \in DOMAIN subnetSpecs :
              /\ Exists(subnetworks, subnetSpecs[i].Name)
              /\ subnetworks[subnetSpecs[i].Name].Description = ClusterTagKey
              /\ subnetworks[subnetSpecs[i].Name].Network =
                    networks[NetworkName].SelfLink
              /\ subnetworks[subnetSpecs[i].Name].SecondaryIpRanges =
                    subnetSpecs[i].SecondaryIpRanges
        /\ scopeNetwork = [SelfLink |-> Ptr(networks[NetworkName].SelfLink),
                           Router |-> Ptr(routers[RouterName].SelfLink)]

\* C10 witness: Reconcile built network, router and two subnets, one with
\* a range, from nothing.
C10_Witness ==
    /\ Succeeded("Reconcile") /\ EmptyProvider(pre)
    /\ Len(subnetSpecs) = 2
    /\ \E i \in DOMAIN subnetSpecs : subnetSpecs[i].SecondaryIpRanges # << >>
    /\ IssuedOK("routers.Insert", RouterName)
    /\ \A i \in DOMAIN subnetSpecs :
          IssuedOK("subnetworks.Insert", subnetSpecs[i].Name)

\* Positions of the log that hold a call of one of the apis.
CallsOf(apis) == { i \in DOMAIN calls : calls[i].api \in apis }

\* Every call of the first kind comes before every call of the second.
AllBefore(first, second) ==
    \A i \in CallsOf(first) : \A j \in CallsOf(second) : i < j

\* A subnet of the spec, or the router, exists with the ownership tag.
OwnedSubnetExists ==
    \E i \in DOMAIN subnetSpecs :
       /\ Exists(subnetworks, subnetSpecs[i].Name)
       /\ subnetworks[subnetSpecs[i].Name].Description = ClusterTagKey

OwnedRouterExists ==
    Exists(routers, RouterName) /\ routers[RouterName].Description = ClusterTagKey

\* C11 (as claimed): in Delete every subnet Delete or Patch call comes
\* before the router Delete call and that one before the network Delete
\* call; and the network Delete call is not issued while a subnet of the
\* spec or the router exists with the ownership tag.
C11_TeardownOrder ==
    op = "Delete" =>
        /\ AllBefore({"subnetworks.Delete", "subnetworks.Patch"},
                     {"routers.Delete", "networks.Delete"})
        /\ AllBefore({"routers.Delete"}, {"networks.Delete"})
        /\ pc = "D86" => ~OwnedSubnetExists /\ ~OwnedRouterExists

\* Some Insert of this operation was answered "already exists".
InsertRaced ==
    \E i \in DOMAIN calls :
       /\ calls[i].api \in {"networks.Insert", "routers.Insert",
                            "subnetworks.Insert", "instances.Insert"}
       /\ calls[i].err = ErrAlreadyExists

\* C12 (as claimed): a Reconcile whose Insert was answered "already exists",
\* the resource having been created by another actor after the not-found
\* Get, does not return that error: it goes on with the resource.
C12_ReconcileToleratesAlreadyExists ==
    (op = "Reconcile" /\ InsertRaced) =>
        ~(pc = "done" /\ result = ErrAlreadyExists)

\* No other actor changed the provider since this operation started.
Undisturbed == extern = pre.extern

\* C15: after a Reconcile that returned success and that no other actor
\* disturbed, the network exists, the router exists when the network
\* carries the ownership tag, and every subnet of the spec exists, whatever
\* another actor deleted before it started.
C15_ReconcileRecreates ==
    (Succeeded("Reconcile") /\ Undisturbed) =>
        /\ Exists(networks, NetworkName)
        /\ networks[NetworkName].Description = ClusterTagKey =>
              Exists(routers, RouterName)
        /\ \A i \in DOMAIN subnetSpecs : Exists(subnetworks, subnetSpecs[i].Name)

\* C15 witness: after a successful Reconcile another actor deleted the
\* router of the cluster's own network; the next Reconcile inserted it.
C15_Witness ==
    /\ Succeeded("Reconcile") /\ Undisturbed /\ settled
    /\ pre.extern > 0
    /\ Exists(pre.networks, NetworkName)
    /\ pre.networks[NetworkName].Description = ClusterTagKey
    /\ pre.scopeNetwork.Router # Nil
    /\ ~Exists(pre.routers, RouterName)
    /\ IssuedOK("routers.Insert", RouterName)
    /\ Exists(routers, RouterName)

\* The entries of a range list.
Entries(ranges) == { ranges[j] : j \in DOMAIN ranges }

\* The subnets of the spec that existed, without the ownership tag, before
\* the Reconcile calls that came before this Delete, and that this Delete
\* fetched.
RestoredSubnets ==
    IF baseline = Nil THEN {}
    ELSE { i \in DOMAIN subnetSpecs :
             /\ Exists(Deref(baseline), subnetSpecs[i].Name)
             /\ Deref(baseline)[subnetSpecs[i].Name].Description # ClusterTagKey
             /\ IssuedOK("subnetworks.Get", subnetSpecs[i].Name) }

FailedLookup(i, apis) == calls[i].api \in apis /\ calls[i].err = ErrTransient

\* The operation returned the error right after its call at position i.
AbortedAt(i) == i = Len(calls) /\ pc = "done" /\ result = calls[i].err

\* C17 (as claimed): in Delete a Get of a subnet, of the network or of the
\* router that answers an error other than not-found is the last call of
\* that Delete, which returns that error.
C17_LookupFailureAbortsDelete ==
    op = "Delete" =>
        \A i \in DOMAIN calls :
           FailedLookup(i, {"subnetworks.Get", "networks.Get", "routers.Get"}) =>
              AbortedAt(i)

\* The step is the engine's Patch of createOrPatchSubnet taking effect.
ReconcilePatchStep ==
    /\ op = "Reconcile" /\ pc = "R200"
    /\ extern' = extern
    /\ subnetworks' # subnetworks

\* C18 (as claimed): with another actor adding secondary ranges at any
\* point between the Get and the Patch of createOrPatchSubnet, every range
\* name a subnet holds right before the engine's Patch it holds right
\* after it.
C18_PatchKeepsRangesUnderInterleaving ==
    [][ReconcilePatchStep =>
          \A name \in DOMAIN subnetworks :
             /\ Exists(subnetworks', name)
             /\ RangeNamesOf(subnetworks[name].SecondaryIpRanges) \subseteq
                   RangeNamesOf(subnetworks'[name].SecondaryIpRanges)]_vars

\* The last call of the operation.
LastCallIs(api, key, err) ==
    calls # << >> /\ calls[Len(calls)] = Call(api, key, err)

ScopeCleared == scopeNetwork = [SelfLink |-> Nil, Router |-> Nil]

\* Delete fetched a network that carries the ownership tag.
FetchedOwnNetwork == network # Nil /\ Deref(network).Description = ClusterTagKey

\* C19 (as claimed): a Delete whose network Delete call answered not-found,
\* the network having been removed by another actor after the lookup,
\* returns success with both recorded references nil; and every successful
\* Delete of a network with the ownership tag leaves both references nil.
C19_NetworkDeleteToleratesNotFound ==
    /\ (Finished("Delete")
          /\ LastCallIs("networks.Delete", NetworkName, ErrNotFound)) =>
             result = OK /\ ScopeCleared
    /\ (Succeeded("Delete") /\ FetchedOwnNetwork) => ScopeCleared

\* C20: Delete issues, or is about to issue, the router Delete call only
\* with a fetched router that carries the ownership tag, and a subnet Delete
\* call only for a subnet it fetched with the ownership tag; a router or a
\* subnet without the tag exists unchanged in every state of Delete, also
\* when the network carries the tag.
C20_DeleteChecksEachOwnership ==
    op = "Delete" =>
        /\ (Issued("routers.Delete", RouterName) \/ pc = "D81") =>
              /\ router # Nil
              /\ Deref(router).Description = ClusterTagKey
              /\ IssuedOK("routers.Get", RouterName)
        /\ \A i \in DOMAIN subnetSpecs :
              LET name == subnetSpecs[i].Name
              IN  /\ (pc = "D229" /\ idx = i) =>
                        Deref(subnet).Description = ClusterTagKey
                  /\ (Issued("subnetworks.Delete", name) \/ (pc = "D229" /\ idx = i)) =>
                        /\ IssuedOK("subnetworks.Get", name)
                        /\ pre.subnetworks[name].Description = ClusterTagKey
        /\ (Exists(pre.routers, RouterName)
              /\ pre.routers[RouterName].Description # ClusterTagKey) =>
                 routers = pre.routers
        /\ \A name \in DOMAIN pre.subnetworks :
              pre.subnetworks[name].Description # ClusterTagKey =>
                 /\ Exists(subnetworks, name)
                 /\ subnetworks[name].Description = pre.subnetworks[name].Description

\* C20 witness: Delete removed the cluster's own network and left a router
\* and a subnet that do not carry the tag.
C20_Witness ==
    /\ Succeeded("Delete") /\ FetchedOwnNetwork
    /\ IssuedOK("networks.Delete", NetworkName)
    /\ IssuedOK("routers.Get", RouterName)
    /\ Exists(routers, RouterName)
    /\ routers[RouterName].Description # ClusterTagKey
    /\ \E i \in DOMAIN subnetSpecs :
          /\ IssuedOK("subnetworks.Get", subnetSpecs[i].Name)
          /\ Exists(subnetworks, subnetSpecs[i].Name)

\* Reconcile is past its network step and, for a network of its own, past
\* its router step.
NetworkStepsDone ==
    /\ network # Nil
    /\ ReconcileOwnsNetwork(Deref(network)) => router # Nil

\* C26: as long as a Reconcile has not completed its network step and, for
\* a network of its own, its router step, and when it failed in one of
\* them, the scope's self-link and Router reference are what they were when
\* it started; from then on the self-link is the fetched network's, the
\* Router reference is the fetched router's for a network of its own and
\* what it was before for a network of somebody else.
C26_RecordedOutput ==
    (op = "Reconcile" /\ scopeMachine = << >>) =>
       IF NetworkStepsDone
         THEN /\ scopeNetwork.SelfLink = Ptr(Deref(network).SelfLink)
              /\ scopeNetwork.Router =
                    IF ReconcileOwnsNetwork(Deref(network))
                      THEN Ptr(Deref(router).SelfLink)
                      ELSE pre.scopeNetwork.Router
         ELSE scopeNetwork = pre.scopeNetwork

\* C26 witness: the scope held a Router reference, the network now belongs
\* to somebody else, Reconcile succeeded, recorded the self-link and the
\* Router reference is still there.
C26_Witness ==
    /\ Succeeded("Reconcile") /\ scopeMachine = << >>
    /\ FetchedForeignNetwork
    /\ pre.scopeNetwork.Router = Ptr(RouterSelfLink)
    /\ scopeNetwork = [SelfLink |-> Ptr(NetworkSelfLink), Router |-> Ptr(RouterSelfLink)]

\* ------------------------------------------------------------------------
\* instances.Service: properties
\* ------------------------------------------------------------------------

\* The status the running operation observed on the instance it fetched.
ObservedRunning == instance # Nil /\ Deref(instance).Status = InstanceStatusRunning

AddCalls == { i \in DOMAIN calls : calls[i].api = "instancegroups.AddInstances" }

\* C7: Reconcile issues AddInstances only for an instance it observed
\* RUNNING; a Reconcile that succeeds on a control-plane instance observed
\* RUNNING and not listed has issued AddInstances once, for its self-link;
\* no AddInstances is issued while the instance is listed, nor by a
\* Reconcile that follows a successful Reconcile.
C7_RegistrationGate ==
    op = "Reconcile" =>
        /\ (AddCalls # {} \/ pc = "I158") => ObservedRunning
        /\ Cardinality(AddCalls) <= 1
        /\ \A i \in AddCalls : calls[i].key = InstanceSelfLink
        /\ (Succeeded("Reconcile") /\ isControlPlane /\ ObservedRunning
              /\ InstanceSelfLink \notin instanceList) =>
                IssuedOK("instancegroups.AddInstances", InstanceSelfLink)
        /\ InstanceSelfLink \in instanceList => AddCalls = {} /\ pc # "I158"
        /\ settled => AddCalls = {} /\ pc # "I158"

\* C7 witness: the Reconcile before recorded PROVISIONING and added nothing;
\* this one observed RUNNING and added the instance to the group.
C7_Witness ==
    /\ Succeeded("Reconcile") /\ isControlPlane
    /\ pre.scopeMachine.InstanceStatus = Ptr("PROVISIONING")
    /\ InstanceSelfLink \notin pre.instanceGroups[GroupName]
    /\ ObservedRunning
    /\ IssuedOK("instancegroups.AddInstances", InstanceSelfLink)
    /\ InstanceSelfLink \in Members

\* C8 (as claimed): after a successful Reconcile of a control-plane machine
\* the instance is a member of the group exactly if it was observed RUNNING.
C8_MemberIffRunning ==
    (Succeeded("Reconcile") /\ isControlPlane) =>
        (InstanceSelfLink \in Members <=> ObservedRunning)

\* C8 (amended): after a successful Reconcile of a control-plane machine an
\* instance observed RUNNING is a member of the group, and the membership
\* of an instance observed in another status is what it was before.
C8_RunningIsMemberOthersKept ==
    (Succeeded("Reconcile") /\ isControlPlane) =>
        /\ Exists(instanceGroups, GroupName)
        /\ Members = pre.instanceGroups[GroupName]
                        \cup (IF ObservedRunning THEN {InstanceSelfLink} ELSE {})

\* C8 witness: an instance registered earlier is observed TERMINATED by a
\* successful Reconcile and is still a member.
C8_Witness ==
    /\ Succeeded("Reconcile") /\ isControlPlane
    /\ instance # Nil /\ Deref(instance).Status = "TERMINATED"
    /\ InstanceSelfLink \in Members

\* C9 (as claimed): after a successful Delete of a control-plane machine
\* the instance is not a member of the group.
C9_DeleteLeavesNoMember ==
    (Succeeded("Delete") /\ isControlPlane) => InstanceSelfLink \notin Members

DeregisterApis == {"instancegroups.ListInstances", "instancegroups.RemoveInstances"}

\* C21: an instance Delete whose lookup answers not-found has made that one
\* call and returns success; on a control-plane machine the instance Delete
\* call comes after a ListInstances call and after every call of the
\* deregistration, none of which failed; after a failed call of the
\* deregistration no instance Delete call is issued and the operation
\* returns that error; a Delete whose instance Delete call answers
\* not-found returns success.
C21_InstanceDeleteProtocol ==
    (op = "Delete" /\ scopeMachine # << >>) =>
       /\ \A i \in DOMAIN calls :
             calls[i] = Call("instances.Get", InstanceName, ErrNotFound) =>
                /\ Len(calls) = 1 /\ pc = "done" /\ result = OK
       /\ (isControlPlane /\ (pc = "X94" \/ CallsOf({"instances.Delete"}) # {})) =>
             /\ \E i \in DOMAIN calls :
                   calls[i] = Call("instancegroups.ListInstances", GroupName, OK)
             /\ AllBefore(DeregisterApis, {"instances.Delete"})
       /\ \A i \in CallsOf(DeregisterApis) :
             calls[i].err # OK =>
                /\ AbortedAt(i)
                /\ CallsOf({"instances.Delete"}) = {}
       /\ Cardinality(CallsOf({"instances.Delete"})) <= 1
       /\ (pc = "done" /\ LastCallIs("instances.Delete", InstanceName, ErrNotFound)) =>
             result = OK

\* C21 witness: a control-plane member was deregistered, the instance was
\* removed by somebody else before the instance Delete call, which answered
\* not-found, and Delete succeeded.
C21_Witness ==
    /\ Succeeded("Delete") /\ isControlPlane
    /\ IssuedOK("instancegroups.RemoveInstances", InstanceSelfLink)
    /\ LastCallIs("instances.Delete", InstanceName, ErrNotFound)

\* C22: an instance Reconcile that finds no bootstrap data has returned the
\* error that wraps this failure, has issued no provider call, and has left
\* the scope's provider ID, addresses and instance status, the instances and
\* the instance groups as they were.
C22_NoBootstrapNoCalls ==
    (op = "Reconcile" /\ scopeMachine # << >> /\ bootstrapData = Nil) =>
       /\ pc = "done" /\ result = ErrBootstrap
       /\ calls = << >>
       /\ scopeMachine = pre.scopeMachine
       /\ instances = pre.instances
       /\ instanceGroups = pre.instanceGroups

\* C22 witness: the scope carries what an earlier Reconcile recorded, the
\* instance exists, and this Reconcile failed for lack of bootstrap data.
C22_Witness ==
    /\ Finished("Reconcile") /\ scopeMachine # << >> /\ bootstrapData = Nil
    /\ result = ErrBootstrap
    /\ scopeMachine.ProviderID # Nil /\ scopeMachine.Addresses # << >>
    /\ Exists(instances, InstanceName)

GroupChangeApis == {"instancegroups.AddInstances", "instancegroups.RemoveInstances"}

ListCalls == CallsOf({"instancegroups.ListInstances"})

\* C23 (as claimed): in an instance Reconcile or Delete a ListInstances call
\* answered with an error other than not-found is the last call, no
\* AddInstances or RemoveInstances call was made, and the operation returns
\* that error; the operation does not return at a ListInstances call answered
\* not-found; at most one AddInstances or RemoveInstances call is made, and
\* when it fails the operation returns its error at once.
C23_GroupOperationFailures ==
    (op \in {"Reconcile", "Delete"} /\ scopeMachine # << >>) =>
       /\ \A i \in ListCalls :
             calls[i].err \notin {OK, ErrNotFound} =>
                AbortedAt(i) /\ CallsOf(GroupChangeApis) = {}
       /\ \A i \in ListCalls :
             calls[i].err = ErrNotFound => ~AbortedAt(i)
       /\ Cardinality(CallsOf(GroupChangeApis)) <= 1
       /\ \A i \in CallsOf(GroupChangeApis) :
             calls[i].err # OK => AbortedAt(i)

\* The control-plane instance exists and is RUNNING, its group exists, the
\* bootstrap data is there and no provider call fails.
RegistrationPossible ==
    /\ isControlPlane
    /\ bootstrapData # Nil
    /\ Exists(instances, InstanceName)
    /\ instances[InstanceName].Status = InstanceStatusRunning
    /\ Exists(instanceGroups, GroupName)
    /\ faults = 0

\* C24: when from some point on the control-plane instance exists and is
\* RUNNING, the instance group exists, the bootstrap data is available and
\* provider calls succeed, and Reconcile keeps being invoked, then from some
\* point on the instance's self-link is a member of the control-plane group.
C24_RegistrationEventuallyHappens ==
    <>[]RegistrationPossible => <>[](InstanceSelfLink \in Members)

\* C24 witness: the Reconcile before observed RUNNING and failed before it
\* had added the instance; this one added it.
C24_Witness ==
    /\ Succeeded("Reconcile") /\ isControlPlane
    /\ pre.scopeMachine.InstanceStatus = Ptr(InstanceStatusRunning)
    /\ Exists(pre.instanceGroups, GroupName)
    /\ InstanceSelfLink \notin pre.instanceGroups[GroupName]
    /\ IssuedOK("instancegroups.AddInstances", InstanceSelfLink)
    /\ InstanceSelfLink \in Members
    /\ RegistrationPossible

RECURSIVE AccessConfigCount(_, _)
\* The number of access-configs of the first k interfaces.
AccessConfigCount(ifaces, k) ==
    IF k = 0 THEN 0
    ELSE AccessConfigCount(ifaces, k - 1) + Len(ifaces[k].AccessConfigs)

\* Where the entries of interface k start in the list of addresses.
AddressPosition(ifaces, k) == k + AccessConfigCount(ifaces, k - 1)

\* C25: the addresses Reconcile sets on the scope are, interface by
\* interface in the order of the fetched instance, an InternalIP entry with
\* the interface's network IP followed by one ExternalIP entry per
\* access-config of that interface, in order; there are as many entries as
\* interfaces and access-configs together.
C25_NodeAddresses ==
    (op = "Reconcile" /\ scopeMachine # << >> /\ instance # Nil) =>
       LET ifaces == Deref(instance).NetworkInterfaces
           addresses == scopeMachine.Addresses
       IN  /\ Len(addresses) = Len(ifaces) + AccessConfigCount(ifaces, Len(ifaces))
           /\ \A k \in 1..Len(ifaces) :
                 /\ addresses[AddressPosition(ifaces, k)] =
                       [Type |-> "InternalIP", Address |-> ifaces[k].NetworkIP]
                 /\ \A m \in 1..Len(ifaces[k].AccessConfigs) :
                       addresses[AddressPosition(ifaces, k) + m] =
                          [Type |-> "ExternalIP", Address |-> ifaces[k].AccessConfigs[m]]

\* C25 witness: Reconcile succeeded on an instance of two interfaces with
\* different network IPs, the first with two different access-configs, the
\* second with one.
C25_Witness ==
    /\ Succeeded("Reconcile") /\ instance # Nil
    /\ LET ifaces == Deref(instance).NetworkInterfaces
       IN  /\ Len(ifaces) = 2
           /\ ifaces[1].NetworkIP # ifaces[2].NetworkIP
           /\ Len(ifaces[1].AccessConfigs) = 2
           /\ ifaces[1].AccessConfigs[1] # ifaces[1].AccessConfigs[2]
           /\ Len(ifaces[2].AccessConfigs) = 1
           /\ Len(scopeMachine.Addresses) = 5

\* ------------------------------------------------------------------------
\* Both services: properties
\* ------------------------------------------------------------------------

RemovingApis ==
    {"networks.Delete", "routers.Delete", "subnetworks.Delete",
     "instances.Delete", "instancegroups.RemoveInstances"}

\* Every key of the store before is a key of the store now.
Kept(before, now) == DOMAIN before \subseteq DOMAIN now

\* Every key of the store before is still there unless the operation's
\* Delete call on it succeeded.
KeptUnlessDeleted(before, now, api) ==
    \A k \in DOMAIN before : ~IssuedOK(api, k) => Exists(now, k)

\* C13: a Reconcile of either service issues no Delete and no
\* RemoveInstances call, and every network, router, subnet, instance and
\* group member that existed when it started exists in each of its states,
\* the one it fails in included; in every state of a Delete, the one it
\* fails in included, whatever existed when it started and was not removed
\* by a successful call of that Delete still exists.
C13_NoRollback ==
    /\ op = "Reconcile" =>
          /\ CallsOf(RemovingApis) = {}
          /\ IF scopeMachine = << >>
               THEN /\ Kept(pre.networks, networks)
                    /\ Kept(pre.routers, routers)
                    /\ Kept(pre.subnetworks, subnetworks)
               ELSE /\ Kept(pre.instances, instances)
                    /\ Kept(pre.instanceGroups, instanceGroups)
                    /\ \A g \in DOMAIN pre.instanceGroups :
                          pre.instanceGroups[g] \subseteq instanceGroups[g]
    /\ op = "Delete" =>
          IF scopeMachine = << >>
            THEN /\ KeptUnlessDeleted(pre.networks, networks, "networks.Delete")
                 /\ KeptUnlessDeleted(pre.routers, routers, "routers.Delete")
                 /\ KeptUnlessDeleted(pre.subnetworks, subnetworks,
                                      "subnetworks.Delete")
            ELSE /\ KeptUnlessDeleted(pre.instances, instances, "instances.Delete")
                 /\ Kept(pre.instanceGroups, instanceGroups)
                 /\ \A g \in DOMAIN pre.instanceGroups :
                       \A m \in pre.instanceGroups[g] :
                          ~IssuedOK("instancegroups.RemoveInstances", m) =>
                             m \in instanceGroups[g]

\* C13 witness: a network Reconcile created network and router and then
\* failed on a subnet that existed before; all three exist.
C13_Witness ==
    /\ Finished("Reconcile") /\ result = ErrTransient
    /\ IssuedOK("networks.Insert", NetworkName)
    /\ IssuedOK("routers.Insert", RouterName)
    /\ \E i \in DOMAIN subnetSpecs :
          /\ Exists(pre.subnetworks, subnetSpecs[i].Name)
          /\ calls[Len(calls)] = Call("subnetworks.Patch", subnetSpecs[i].Name,
                                       ErrTransient)
          /\ subnetworks = pre.subnetworks
    /\ Exists(networks, NetworkName) /\ Exists(routers, RouterName)

\* ------------------------------------------------------------------------
\* GCPClusterReconciler: properties
\* ------------------------------------------------------------------------

CreateOrder == << "networks.Reconcile", "firewalls.Reconcile", "loadbalancers.Reconcile" >>

DeleteOrder == << "loadbalancers.Delete", "firewalls.Delete", "networks.Delete" >>

IsComponentCall(c) ==
    \E i \in 1..3 : c.api = CreateOrder[i] \/ c.api = DeleteOrder[i]

\* The calls of components made so far in the running controller call.
ComponentCalls == SelectSeq(calls, IsComponentCall)

\* The calls follow the order, from its first element on, without a gap.
FollowsOrder(cs, order) ==
    /\ Len(cs) <= Len(order)
    /\ \A i \in 1..Len(cs) : cs[i].api = order[i]

\* C14: in one controller call the components are invoked in the order
\* Network, Firewall, LoadBalancer when the cluster is not under deletion and
\* LoadBalancer, Firewall, Network when it is; a component that returns an
\* error is the last one invoked in that call, and the call returns that
\* error.
C14_ClusterOrder ==
    op = "ClusterReconcile" =>
       LET cs == ComponentCalls
       IN  /\ cs # << >> =>
                /\ clusterScope # Nil
                /\ FollowsOrder(cs, IF Deref(clusterScope).DeletionTimestamp
                                       THEN DeleteOrder ELSE CreateOrder)
           /\ \A i \in 1..Len(cs) :
                 cs[i].err # OK =>
                    /\ i = Len(cs)
                    /\ pc \in {"C148", "done"}
                    /\ result = cs[i].err

\* The network is reconciled, the firewalls fail, and the call has returned
\* without invoking the load balancers.
C14_Witness ==
    /\ op = "ClusterReconcile" /\ pc = "done"
    /\ Len(ComponentCalls) = 2
    /\ ComponentCalls[1] = Call("networks.Reconcile", ClusterName, OK)
    /\ ComponentCalls[2] = Call("firewalls.Reconcile", ClusterName, ErrTransient)
    /\ result = ErrTransient

\* The finalizer is on the object p points to.
HasFinalizer(p) == p # Nil /\ ClusterFinalizer \in Deref(p).Finalizers

\* The three Delete calls of the delete path were made and succeeded.
AllDeletesOK(log) ==
    \A k \in 1..3 : \E i \in DOMAIN log : log[i] = Call(DeleteOrder[k], ClusterName, OK)

CreateCalls == { i \in DOMAIN calls : \E k \in 1..3 : calls[i].api = CreateOrder[k] }

PatchCalls == { i \in DOMAIN calls : calls[i].api = "PatchObject" }

\* Before every Reconcile call of a component the finalizer was added and
\* PatchObject succeeded, and the stored object carries the finalizer; a
\* failed PatchObject is the last call and its error is the call's.
FinalizerBeforeCreate ==
    op = "ClusterReconcile" =>
       /\ \A i \in CreateCalls :
             /\ \E j \in PatchCalls : j < i /\ calls[j].err = OK
             /\ HasFinalizer(clusterScope)
             /\ HasFinalizer(gcpCluster)
       /\ \A j \in PatchCalls :
             calls[j].err # OK =>
                /\ j = Len(calls) \/ (j = Len(calls) - 1 /\ calls[Len(calls)].api = "Close")
                /\ ComponentCalls = << >>
                /\ pc \in {"C148", "done"}
                /\ result = calls[j].err

\* A step of a running controller call takes the finalizer off the object in
\* memory or off the stored object.
FinalizerRemoved ==
    /\ op = "ClusterReconcile" /\ pc # "done"
    /\ \/ HasFinalizer(clusterScope) /\ ~HasFinalizer(clusterScope')
       \/ HasFinalizer(gcpCluster) /\ ~HasFinalizer(gcpCluster')

\* C27: on the create path every Reconcile call of a component comes after
\* the finalizer was added and persisted by a successful PatchObject, and a
\* failed PatchObject ends the call without any component call; a step of
\* a controller call takes the finalizer off only when loadbalancers.Delete,
\* firewalls.Delete and networks.Delete have all succeeded in that call, so
\* after a failed Delete the finalizer is where it was.
C27_FinalizerProtocol ==
    /\ []FinalizerBeforeCreate
    /\ [][FinalizerRemoved => AllDeletesOK(calls')]_vars

\* C27 witness: the three Deletes succeeded, the call returned without
\* error, and the stored object has no finalizer left.
C27_Witness ==
    /\ op = "ClusterReconcile" /\ pc = "done" /\ result = OK
    /\ AllDeletesOK(calls)
    /\ gcpCluster # Nil /\ Deref(gcpCluster).DeletionTimestamp
    /\ ~HasFinalizer(gcpCluster)

\* The object p points to is marked ready.
IsReady(p) == p # Nil /\ Deref(p).Ready

\* The three Reconcile calls of the create path were made and succeeded.
AllReconcilesOK(log) ==
    \A k \in 1..3 : \E i \in DOMAIN log : log[i] = Call(CreateOrder[k], ClusterName, OK)

\* A step of a running controller call marks the object in memory or the
\* stored object ready.
MarkedReady ==
    /\ op = "ClusterReconcile" /\ pc # "done"
    /\ \/ clusterScope # Nil /\ ~IsReady(clusterScope) /\ IsReady(clusterScope')
       \/ gcpCluster # Nil /\ ~IsReady(gcpCluster) /\ IsReady(gcpCluster')

\* The call found no object, no owner cluster, or a paused cluster.
NothingToReconcile ==
    \/ clusterScope = Nil
    \/ ~Deref(clusterScope).OwnerRef
    \/ Deref(clusterScope).Paused

\* reconcile has returned after three successful Reconcile calls with an
\* empty control-plane endpoint host.
WaitingForEndpoint ==
    /\ op = "ClusterReconcile" /\ pc \in {"C148", "done"}
    /\ AllReconcilesOK(calls)
    /\ Deref(clusterScope).Host = ""

\* C28: a step of a controller call marks the cluster ready only when the
\* three Reconcile calls of the components succeeded in that call and the
\* control-plane endpoint host is not empty; when the three succeeded and
\* the host is empty, reconcile returns no error and a requeue after 5
\* seconds, and the cluster is not marked ready by that call; a call that
\* finds no object, no owner cluster or a paused cluster invokes no
\* Reconcile and no Delete of a component.
C28_ReadinessGating ==
    /\ [][MarkedReady =>
             /\ AllReconcilesOK(calls')
             /\ Deref(clusterScope').Host # ""]_vars
    /\ [](WaitingForEndpoint =>
             /\ ctrlResult = EndpointRequeueSeconds
             /\ EndpointRequeueSeconds = 5
             /\ pc = "C148" => result = OK
             /\ (pc = "done" /\ result # OK) => calls[Len(calls)].err = result
                                                 /\ calls[Len(calls)].api = "Close")
    /\ []((op = "ClusterReconcile" /\ NothingToReconcile) =>
             /\ ComponentCalls = << >>
             /\ pc \in {"C120", "done"})

\* C28 witness: the three Reconcile calls succeeded, the endpoint has no
\* host yet, the call returned without error and asks for a requeue, and
\* the stored cluster is not ready.
C28_Witness ==
    /\ WaitingForEndpoint /\ pc = "done" /\ result = OK
    /\ ctrlResult = EndpointRequeueSeconds
    /\ gcpCluster # Nil /\ ~IsReady(gcpCluster) /\ ~IsReady(clusterScope)

====
